---------------------------- MODULE Spec2Model ----------------------------
(***************************************************************************)
(* A model of the G-code post-processors of PrusaPosts (GapCloser,        *)
(* TravelExtrusionMultiplier, ColorBlip): the G1 move parser, the          *)
(* position tracker and the segmenter that splits a stream of text lines   *)
(* into pre-print / layers / lines / post-print.                           *)
(*                                                                         *)
(* A text line is a sequence of one-character strings.  A parsed number    *)
(* is kept as an integer count of 1/Scale units (Python floats of short    *)
(* decimal numerals compare exactly like these).  Python's None is the     *)
(* empty tuple <<>> and a present value v is <<v>>.                        *)
(***************************************************************************)
EXTENDS Integers, Sequences, FiniteSets, TLC

\* ------------------------------------------------------------------------
\* Bounds of the model
\* ------------------------------------------------------------------------
\* longest tail, after the instruction keyword, of a line handed to parse_line
MaxTail == 4
\* longest input stream handed to the segmenter
MaxLen == 4
\* longest input stream handed to ColorWipe
MaxWipe == 5
\* longest segment handed to a Line on its own
MaxSeg == 4
\* gcode_fmt is called on the decimals n / 10^e with |n| <= MaxMant, e <= MaxExp
MaxMant == 12
MaxExp == 5
\* longest layer handed to ColorBlip's Layer on its own
MaxBlip == 5

\* resolution of a modelled float: 1/1000
Scale == 10 * 10 * 10

\* ------------------------------------------------------------------------
\* Text constants of the tools
\* ------------------------------------------------------------------------
LAYER_CHANGE_ID == << ";", "L", "A", "Y", "E", "R", "_", "C", "H", "A", "N", "G", "E" >>
AFTER_LAYER_CHANGE_ID == << ";", "A", "F", "T", "E", "R", "_", "L", "A", "Y", "E", "R", "_", "C", "H", "A", "N", "G", "E" >>
TYPE_ID == << ";", "T", "Y", "P", "E", ":" >>
M107 == << "M", "1", "0", "7" >>

\* str.startswith
startswith(s, p) ==
    /\ Len(s) >= Len(p)
    /\ SubSeq(s, 1, Len(p)) = p

\* ------------------------------------------------------------------------
\* parse_line: the G1 grammar
\* ------------------------------------------------------------------------
Digits == {"0", "1", "2", "3", "4", "5", "6", "7", "8", "9"}
FieldLetters == {"X", "Y", "Z", "E", "F"}

None == << >>
Some(v) == << v >>

DigitVal(c) ==
    CASE c = "0" -> 0 [] c = "1" -> 1 [] c = "2" -> 2 [] c = "3" -> 3
      [] c = "4" -> 4 [] c = "5" -> 5 [] c = "6" -> 6 [] c = "7" -> 7
      [] c = "8" -> 8 [] c = "9" -> 9

\* first index k >= i of s whose character is not in cs (Len(s)+1 if none)
RECURSIVE RunEnd(_, _, _)
RunEnd(s, i, cs) ==
    IF i > Len(s) \/ s[i] \notin cs THEN i ELSE RunEnd(s, i + 1, cs)

CountDots(t) == Cardinality({k \in 1..Len(t) : t[k] = "."})

\* One or more fields  X<num> *  |  Y<num> *  |  Z<num> *  |  E-?<num> *  |  F<digits> *
\* from index i up to the end of the line, <num> being [0-9]*\.?[0-9]*.
\* A group keeps the text of the last field that captured it.
RECURSIVE MatchFields(_, _, _)
MatchFields(s, i, groups) ==
    IF i > Len(s) \/ s[i] \notin FieldLetters
    THEN [matched |-> FALSE, groups |-> groups]
    ELSE LET letter == s[i]
             j  == IF letter = "E" /\ i + 1 <= Len(s) /\ s[i + 1] = "-" THEN i + 2 ELSE i + 1
             k  == IF letter = "F" THEN RunEnd(s, j, Digits)
                                   ELSE RunEnd(s, j, Digits \cup {"."})
             text == SubSeq(s, i + 1, k - 1)
             ok == IF letter = "F" THEN k > j
                                   ELSE CountDots(text) <= 1
             n  == RunEnd(s, k, {" "})
             captured == [groups EXCEPT ![letter] = Some(text)]
         IN  IF ~ok THEN [matched |-> FALSE, groups |-> groups]
             ELSE IF n > Len(s) THEN [matched |-> TRUE, groups |-> captured]
             ELSE MatchFields(s, n, captured)

\* g1_line.match(gcode_line); NoGroups: the groups of a match that captured nothing
g1_line(s) ==
    LET NoGroups == [X |-> None, Y |-> None, Z |-> None, E |-> None, F |-> None]
    IN  IF startswith(s, << "G", "1", " " >>)
        THEN MatchFields(s, 4, NoGroups)
        ELSE [matched |-> FALSE, groups |-> NoGroups]

\* value of an unsigned digit string read as an integer
RECURSIVE IntPart(_)
IntPart(t) ==
    IF t = << >> THEN 0
    ELSE 10 * IntPart(SubSeq(t, 1, Len(t) - 1)) + DigitVal(t[Len(t)])

\* value in 1/Scale units of the digits after the point, weight w for the first
RECURSIVE FracPart(_, _)
FracPart(t, w) ==
    IF t = << >> \/ w = 0 THEN 0
    ELSE DigitVal(t[1]) * w + FracPart(Tail(t), w \div 10)

\* float of an unsigned numeral whose integer part ends before index dot:
\* [ok |-> FALSE] is Python's ValueError (no digit at all)
FloatAt(body, dot) ==
    IF Len(body) = 0 \/ (Len(body) = 1 /\ dot = 1)
    THEN [ok |-> FALSE, v |-> 0]
    ELSE [ok |-> TRUE,
          v  |-> IntPart(SubSeq(body, 1, dot - 1)) * Scale
                 + FracPart(SubSeq(body, dot + 1, Len(body)), Scale \div 10)]

FloatUnsigned(body) == FloatAt(body, RunEnd(body, 1, Digits))

Negated(r) == [ok |-> r.ok, v |-> 0 - r.v]

\* float(text) for the texts the groups of g1_line capture
float(text) ==
    IF text # << >> /\ text[1] = "-"
    THEN Negated(FloatUnsigned(Tail(text)))
    ELSE FloatUnsigned(text)

\* the G1 namedtuple; kind "None" is Python's None, kind "ValueError" is the
\* exception float() raises out of parse_line
G1(x, y, z, e, f) == [kind |-> "G1", x |-> x, y |-> y, z |-> z, e |-> e, f |-> f]
NotG1(kind) == [kind |-> kind, x |-> None, y |-> None, z |-> None, e |-> None, f |-> None]

\* float(group) if group is not None else None, for every group
GroupFloats(g) ==
    [l \in FieldLetters |->
        IF g[l] = None THEN [ok |-> TRUE, o |-> None]
        ELSE LET r == float(g[l][1]) IN [ok |-> r.ok, o |-> Some(r.v)]]

\* G1._make(...) of the converted groups
MakeG1(fl) ==
    IF \E l \in FieldLetters : ~fl[l].ok THEN NotG1("ValueError")
    ELSE G1(fl.X.o, fl.Y.o, fl.Z.o, fl.E.o, fl.F.o)

\* the body of parse_line for the match object result
ParseResult(result) ==
    IF ~result.matched THEN NotG1("None") ELSE MakeG1(GroupFloats(result.groups))

parse_line(gcode_line) == ParseResult(g1_line(gcode_line))

\* ------------------------------------------------------------------------
\* Point: the position tracker
\* ------------------------------------------------------------------------
Point(x, y, z) == [x |-> x, y |-> y, z |-> z]

undefined == Point(None, None, None)

\* a variant of updated_with_g1_move: the move's fields replace the point
replaced_by_g1_move(p, g1) == Point(g1.x, g1.y, g1.z)

updated_with_g1_move(p, g1) ==
    Point(IF g1.x # None THEN g1.x ELSE p.x,
          IF g1.y # None THEN g1.y ELSE p.y,
          IF g1.z # None THEN g1.z ELSE p.z)

is_xy_equal(p, q) == p.x = q.x /\ p.y = q.y

\* Python truth value of an optional float, and the value of  a or b or c
Truthy(o) == o # None /\ o[1] # 0
PyOr3(a, b, c) == IF Truthy(a) THEN a ELSE IF Truthy(b) THEN b ELSE c

\* gcode_lines += lines, over a sequence of lists of lines
RECURSIVE Concat(_)
Concat(ss) == IF ss = << >> THEN << >> ELSE Head(ss) \o Concat(Tail(ss))

\* gcode_lines[a:b] with 0-based a <= len and b <= len
Slice(s, a, b) == SubSeq(s, a + 1, b)

\* ------------------------------------------------------------------------
\* gcode_fmt: numbers on output
\* ------------------------------------------------------------------------
\* a float given as the decimal n / 10^e
Dec(n, e) == [n |-> n, e |-> e]

\* a modelled float (1/Scale units) as a decimal
OfScale(v) == Dec(v, 3)

RECURSIVE Pow10(_)
Pow10(k) == IF k = 0 THEN 1 ELSE 10 * Pow10(k - 1)

Abs(n) == IF n < 0 THEN 0 - n ELSE n

\* |value| rounded to precision decimals, in units of 10^-precision
\* (a float is never exactly half way between two such decimals)
Rounded(value, precision) ==
    IF value.e <= precision
    THEN Abs(value.n) * Pow10(precision - value.e)
    ELSE (Abs(value.n) + Pow10(value.e - precision) \div 2) \div Pow10(value.e - precision)

DigitChar(d) ==
    CASE d = 0 -> "0" [] d = 1 -> "1" [] d = 2 -> "2" [] d = 3 -> "3" [] d = 4 -> "4"
      [] d = 5 -> "5" [] d = 6 -> "6" [] d = 7 -> "7" [] d = 8 -> "8" [] d = 9 -> "9"

\* the decimal digits of n >= 0, at least one
RECURSIVE DigitsOf(_)
DigitsOf(n) ==
    IF n < 10 THEN << DigitChar(n) >> ELSE Append(DigitsOf(n \div 10), DigitChar(n % 10))

\* the last w decimal digits of n >= 0, zero padded
RECURSIVE PadDigits(_, _)
PadDigits(n, w) ==
    IF w = 0 THEN << >> ELSE Append(PadDigits(n \div 10, w - 1), DigitChar(n % 10))

\* f"{value:.{precision}f}" for the rounded magnitude m
FixedText(neg, m, precision) ==
    (IF neg THEN << "-" >> ELSE << >>)
        \o DigitsOf(m \div Pow10(precision)) \o << "." >> \o PadDigits(m % Pow10(precision), precision)

\* str.strip("0"): zeros taken from both ends
RECURSIVE StripLeft(_)
StripLeft(t) == IF t # << >> /\ t[1] = "0" THEN StripLeft(Tail(t)) ELSE t

RECURSIVE StripRight(_)
StripRight(t) ==
    IF t # << >> /\ t[Len(t)] = "0" THEN StripRight(SubSeq(t, 1, Len(t) - 1)) ELSE t

strip0(t) == StripRight(StripLeft(t))

gcode_fmt(value, precision) ==
    IF value.n # 0
    THEN strip0(FixedText(value.n < 0, Rounded(value, precision), precision))
    ELSE << "0", ".", "0", "0", "0" >>

\* ------------------------------------------------------------------------
\* The three tools that share the segmenter
\* ------------------------------------------------------------------------
Tools == {"GapCloser", "TravelExtrusionMultiplier", "ColorBlip"}

ENABLED_ID(t) ==
    LET GAP_CLOSER_ENABLED == << ";", " ", "G", "A", "P", "_", "C", "L", "O", "S", "E", "R", "_", "E", "N", "A", "B", "L", "E", "D" >>
        TRAVEL_EXTRUSION_MULT_ENABLED == << ";", " ", "T", "R", "A", "V", "E", "L", "_", "E", "X", "T", "R", "U", "S", "I", "O", "N", "_", "M", "U", "L", "T", "_", "E", "N", "A", "B", "L", "E", "D" >>
        BLIP_REMOVER_ENABLED == << ";", " ", "B", "L", "I", "P", "_", "R", "E", "M", "O", "V", "E", "R", "_", "E", "N", "A", "B", "L", "E", "D" >>
    IN  CASE t = "GapCloser" -> GAP_CLOSER_ENABLED
          [] t = "TravelExtrusionMultiplier" -> TRAVEL_EXTRUSION_MULT_ENABLED
          [] t = "ColorBlip" -> BLIP_REMOVER_ENABLED

DISABLED_ID(t) ==
    LET GAP_CLOSER_DISABLED == << ";", " ", "G", "A", "P", "_", "C", "L", "O", "S", "E", "R", "_", "D", "I", "S", "A", "B", "L", "E", "D" >>
        TRAVEL_EXTRUSION_MULT_DISABLED == << ";", " ", "T", "R", "A", "V", "E", "L", "_", "E", "X", "T", "R", "U", "S", "I", "O", "N", "_", "M", "U", "L", "T", "_", "D", "I", "S", "A", "B", "L", "E", "D" >>
        BLIP_REMOVER_DISABLED == << ";", " ", "B", "L", "I", "P", "_", "R", "E", "M", "O", "V", "E", "R", "_", "D", "I", "S", "A", "B", "L", "E", "D" >>
    IN  CASE t = "GapCloser" -> GAP_CLOSER_DISABLED
          [] t = "TravelExtrusionMultiplier" -> TRAVEL_EXTRUSION_MULT_DISABLED
          [] t = "ColorBlip" -> BLIP_REMOVER_DISABLED

\* the toggle's state before the first line
DefaultEnabled(t) == t # "ColorBlip"

\* ------------------------------------------------------------------------
\* Line
\* ------------------------------------------------------------------------
\* the test has_deretraction applies to a parsed line: a pure E+F move with
\* the configured retract length and deretraction speed
IsDeretraction(cfg, g1) ==
    /\ g1.kind = "G1"
    /\ g1.x = None /\ g1.y = None /\ g1.z = None
    /\ g1.e # None /\ g1.f # None
    /\ g1.e[1] = cfg.retract_len
    /\ g1.f[1] = cfg.deretract_speed

\* a variant of has_deretraction: over all the lines
has_deretraction_all(cfg, gl) ==
    \E k \in 1..Len(gl) : IsDeretraction(cfg, parse_line(gl[k]))

\* Line.has_deretraction: over the first 5 lines
has_deretraction(cfg, gl) ==
    \E k \in 1..(IF Len(gl) < 5 THEN Len(gl) ELSE 5) : IsDeretraction(cfg, parse_line(gl[k]))

\* Whether Line.process_gcode_lines leaves the early return and rewrites the
\* segment: the deretraction gate of GapCloser and TravelExtrusionMultiplier,
\* the enabled flag alone in ColorBlip.
LineRewrites(t, cfg, gl, enabled) ==
    IF t = "ColorBlip" THEN enabled
    ELSE ~(~enabled \/ ~has_deretraction(cfg, gl))

\* Line.__init__: gcode_lines is the slice handed to the constructor
Line(t, cfg, gl, start_point, end_point, type, enabled) ==
    [gcode_lines |-> gl,
     start_point |-> start_point,
     end_point   |-> end_point,
     type        |-> type,
     enabled     |-> enabled,
     rewrite     |-> LineRewrites(t, cfg, gl, enabled)]

\* ------------------------------------------------------------------------
\* Layer
\* ------------------------------------------------------------------------
\* what the first loop of Layer.process_gcode_lines leaves behind
PreLayer(err, found, pre_end_idx, current_point, start_point) ==
    [err |-> err, found |-> found, pre_end_idx |-> pre_end_idx,
     current_point |-> current_point, start_point |-> start_point]

\* GapCloser, ColorBlip: the move g1 ends the layer's preamble
\*   is_after_layer_change and g1.e is None and (g1.x or g1.y or g1.z) is not None
PreLayerBoundary(is_after_layer_change, g1) ==
    is_after_layer_change /\ g1.e = None /\ PyOr3(g1.x, g1.y, g1.z) # None

\* First loop of Layer.process_gcode_lines in GapCloser and ColorBlip.
RECURSIVE PreLayerScan(_, _, _, _, _)
RECURSIVE PreLayerStep(_, _, _, _, _, _)
PreLayerScan(gl, i, current_point, start_point, is_after_layer_change) ==
    IF i >= Len(gl) THEN PreLayer(FALSE, FALSE, 0, current_point, start_point)
    ELSE IF gl[i + 1] = AFTER_LAYER_CHANGE_ID
    THEN PreLayerScan(gl, i + 1, current_point, start_point, TRUE)
    ELSE PreLayerStep(gl, i, current_point, start_point, is_after_layer_change,
                      parse_line(gl[i + 1]))

PreLayerStep(gl, i, current_point, start_point, is_after_layer_change, g1) ==
    IF g1.kind = "ValueError" THEN PreLayer(TRUE, FALSE, 0, current_point, start_point)
    ELSE IF g1.kind = "None"
    THEN PreLayerScan(gl, i + 1, current_point, start_point, is_after_layer_change)
    ELSE IF PreLayerBoundary(is_after_layer_change, g1)
    THEN PreLayer(FALSE, TRUE, i, current_point, updated_with_g1_move(current_point, g1))
    ELSE PreLayerScan(gl, i + 1, updated_with_g1_move(current_point, g1), start_point,
                      is_after_layer_change)

\* a move the scans treat as a travel move: no E field and a planar target
\* other than the scan's current point
TravelMoveFound(current_point, g1) ==
    g1.e = None /\ ~is_xy_equal(current_point, updated_with_g1_move(current_point, g1))

\* First loop of Layer.process_gcode_lines in TravelExtrusionMultiplier: the
\* boundary is the first travel move; start_point is left as it was.
RECURSIVE PreLayerScanTravel(_, _, _, _)
RECURSIVE PreLayerStepTravel(_, _, _, _, _)
PreLayerScanTravel(gl, i, current_point, start_point) ==
    IF i >= Len(gl) THEN PreLayer(FALSE, FALSE, 0, current_point, start_point)
    ELSE PreLayerStepTravel(gl, i, current_point, start_point, parse_line(gl[i + 1]))

PreLayerStepTravel(gl, i, current_point, start_point, g1) ==
    IF g1.kind = "ValueError" THEN PreLayer(TRUE, FALSE, 0, current_point, start_point)
    ELSE IF g1.kind = "None" THEN PreLayerScanTravel(gl, i + 1, current_point, start_point)
    ELSE IF TravelMoveFound(current_point, g1)
    THEN PreLayer(FALSE, TRUE, i, current_point, start_point)
    ELSE PreLayerScanTravel(gl, i + 1, updated_with_g1_move(current_point, g1), start_point)

\* a variant of LineCut: the travel move closes the segment it ends
LineCutAfter(line_start_idx, i) == [from |-> line_start_idx, to |-> i + 1, next_start |-> i + 1]

\* the slice [from, to) of the layer a Line is made of when the line split
\* meets a travel move at index i, and the index the next Line starts at
LineCut(line_start_idx, i) == [from |-> line_start_idx, to |-> i, next_start |-> i]

\* lines.append(Line(...)) and the restart of the segment at the travel move
CutAt(t, cfg, gl, enabled, st, i, cut, new_point) ==
    [st EXCEPT !.lines = Append(st.lines,
                    Line(t, cfg, Slice(gl, cut.from, cut.to), st.line_start_point,
                         st.current_point, st.current_type, enabled)),
               !.travels = Append(st.travels, i),
               !.line_start_idx = cut.next_start,
               !.line_start_point = new_point,
               !.current_point = new_point]

\* a variant of LastLine: nothing is appended after the loop
LastLineNone(t, cfg, gl, enabled, st) == st

\* after the loop: the last Line, gcode_lines[line_start_idx:]
LastLine(t, cfg, gl, enabled, st) ==
    [st EXCEPT !.lines = Append(st.lines,
                    Line(t, cfg, Slice(gl, st.line_start_idx, Len(gl)), st.line_start_point,
                         st.current_point, st.current_type, enabled))]

\* Second loop of Layer.process_gcode_lines: the line split.  st holds the
\* loop's variables and, in travels, the indices at which the loop took the
\* "Travel move found" branch.
RECURSIVE LineSplit(_, _, _, _, _, _)
RECURSIVE LineSplitStep(_, _, _, _, _, _, _)
LineSplit(t, cfg, gl, i, enabled, st) ==
    IF i >= Len(gl) THEN LastLine(t, cfg, gl, enabled, st)
    ELSE LineSplitStep(t, cfg, gl, i, enabled, st, parse_line(gl[i + 1]))

LineSplitStep(t, cfg, gl, i, enabled, st, g1) ==
    IF g1.kind = "ValueError" THEN [st EXCEPT !.err = TRUE]
    ELSE LineSplit(t, cfg, gl, i + 1, enabled,
            IF g1.kind = "G1"
            THEN IF TravelMoveFound(st.current_point, g1)
                 THEN CutAt(t, cfg, gl, enabled, st, i, LineCut(st.line_start_idx, i),
                            updated_with_g1_move(st.current_point, g1))
                 ELSE [st EXCEPT !.current_point = updated_with_g1_move(st.current_point, g1)]
            ELSE IF t = "ColorBlip" /\ startswith(gl[i + 1], TYPE_ID)
                 THEN [st EXCEPT !.current_type = Some(gl[i + 1])]
                 ELSE st)

\* the first loop of the tool
PreLayerOf(t, gl, start_point) ==
    IF t = "TravelExtrusionMultiplier"
    THEN PreLayerScanTravel(gl, 0, start_point, start_point)
    ELSE PreLayerScan(gl, 0, start_point, start_point, FALSE)

\* the variables the line split starts with: it goes on from the first
\* loop's current_point
SplitStart(pre, start_type) ==
    [err |-> pre.err, lines |-> << >>, travels |-> << >>,
     line_start_idx |-> pre.pre_end_idx,
     line_start_point |-> pre.start_point,
     current_point |-> pre.current_point,
     current_type |-> start_type]

\* a variant of LayerStartPoint: self.start_point takes the local start_point
\* after the first loop has moved it to the boundary move's target
LayerStartPointLocal(start_point, pre) == pre.start_point

\* what Layer.start_point is set to: the constructor's argument
LayerStartPoint(start_point, pre) == start_point

\* the Layer object; gcode_lines, found and travels record what the
\* constructor was given, whether its first loop left by break, and where its
\* second loop found travel moves
LayerOf(gl, start_point, start_type, enabled, pre, split) ==
    [err         |-> split.err,
     gcode_lines |-> gl,
     found       |-> pre.found,
     pre_print   |-> Slice(gl, 0, pre.pre_end_idx),
     lines       |-> split.lines,
     travels     |-> split.travels,
     start_point |-> LayerStartPoint(start_point, pre),
     end_point   |-> split.current_point,
     start_type  |-> start_type,
     end_type    |-> split.current_type,
     enabled     |-> enabled]

LayerSplitOf(t, cfg, gl, start_point, start_type, enabled, pre) ==
    LayerOf(gl, start_point, start_type, enabled, pre,
            IF pre.err THEN SplitStart(pre, start_type)
            ELSE LineSplit(t, cfg, gl, pre.pre_end_idx, enabled, SplitStart(pre, start_type)))

\* Layer.__init__ and Layer.process_gcode_lines
Layer(t, cfg, gl, start_point, start_type, enabled) ==
    LayerSplitOf(t, cfg, gl, start_point, start_type, enabled, PreLayerOf(t, gl, start_point))

\* ------------------------------------------------------------------------
\* ColorWipe: process_gcode
\* ------------------------------------------------------------------------
CUSTOM_HOP_ENABLED == << ";", " ", "C", "U", "S", "T", "O", "M", "_", "H", "O", "P", "_", "E", "N", "A", "B", "L", "E", "D" >>
CUSTOM_HOP_DISABLED == << ";", " ", "C", "U", "S", "T", "O", "M", "_", "H", "O", "P", "_", "D", "I", "S", "A", "B", "L", "E", "D" >>
WIPE_START == << ";", "W", "I", "P", "E", "_", "S", "T", "A", "R", "T" >>
WIPE_END == << ";", "W", "I", "P", "E", "_", "E", "N", "D" >>

WipeStreams ==
        \* the lines of a ColorWipe stream
    LET WipePool ==
            { CUSTOM_HOP_ENABLED, CUSTOM_HOP_DISABLED,
              << "G", "1", " ", "Z", "2" >>,
              << "G", "1", " ", "X", "0", " ", "Y", "0" >>,
              << "G", "1", " ", "X", "0", " ", "Y", "0", " ", "Z", "1" >>,
              << "G", "1", " ", "X", "2", " ", "Y", "0", " ", "E", "1" >> }
    IN  UNION { [1..n -> WipePool] : n \in 0..MaxWipe }

\* retract_lift (--lift-z 0.2), wipe_dist = nozzle_diameter 0.4 * wipe_multiplier 2,
\* wipe_threshold 1, travel_speed and travel_speed_z 1 mm/s
WipeConfigs ==
    { [retract_lift |-> 2 * (Scale \div 10), wipe_dist |-> 8 * (Scale \div 10),
       wipe_threshold |-> 1 * Scale, travel_speed |-> 1 * 60, travel_speed_z |-> 1 * 60] }

is_fully_defined(p) == p.x # None /\ p.y # None /\ p.z # None

\* floor of the square root of n >= 0, by Newton's iteration from x
RECURSIVE ISqrtFrom(_, _)
ISqrtFrom(n, x) ==
    IF (x + n \div x) \div 2 >= x THEN x ELSE ISqrtFrom(n, (x + n \div x) \div 2)

ISqrt(n) == IF n = 0 THEN 0 ELSE ISqrtFrom(n, n)

\* (point.x - self.x)**2 + (point.y - self.y)**2 for defined coordinates
SquareDist(p, q) ==
    (q.x[1] - p.x[1]) * (q.x[1] - p.x[1]) + (q.y[1] - p.y[1]) * (q.y[1] - p.y[1])

\* Point.xy_dist (exact when the two points lie on a line parallel to an axis)
xy_dist(p, q) == ISqrt(SquareDist(p, q))

\* a / b rounded to the nearest integer, b > 0
RoundDiv(a, b) == IF a < 0 THEN 0 - ((b \div 2 - a) \div b) ELSE (a + b \div 2) \div b

\* prev + (self - prev) * (1.0 + distance / point_dist) on one axis
WipeCoord(prev, self, distance, point_dist) ==
    prev + RoundDiv((self - prev) * (point_dist + distance), point_dist)

\* Point.wipe_point for defined coordinates and a distance point_dist > 0
WipePointAt(self, prev_point, distance, point_dist) ==
    Point(Some(WipeCoord(prev_point.x[1], self.x[1], distance, point_dist)),
          Some(WipeCoord(prev_point.y[1], self.y[1], distance, point_dist)),
          self.z)

\* Point.wipe_point: arithmetic on None raises TypeError, a distance of zero
\* ZeroDivisionError
wipe_point(self, prev_point, distance) ==
    IF prev_point.x = None \/ prev_point.y = None
    THEN [raised |-> "TypeError", point |-> undefined]
    ELSE IF SquareDist(prev_point, self) = 0
    THEN [raised |-> "ZeroDivisionError", point |-> undefined]
    ELSE [raised |-> "no",
          point |-> WipePointAt(self, prev_point, distance, xy_dist(prev_point, self))]

\* f"G1 X{gcode_fmt(wipe_point.x)} Y{gcode_fmt(wipe_point.y)} F{travel_speed}"
WipeMoveLine(p, travel_speed) ==
    << "G", "1", " ", "X" >> \o gcode_fmt(OfScale(p.x[1]), 3) \o << " ", "Y" >> \o gcode_fmt(OfScale(p.y[1]), 3)
        \o << " ", "F" >> \o DigitsOf(travel_speed)

\* f"G1 Z{gcode_fmt(z)} F{travel_speed_z}"
ZMoveLine(z, travel_speed_z) ==
    << "G", "1", " ", "Z" >> \o gcode_fmt(OfScale(z), 3) \o << " ", "F" >> \o DigitsOf(travel_speed_z)

\* the variables of process_gcode before its loop; n counts the lines the
\* loop has taken, copies keeps for each of them the index in
\* processed_gcode_lines its copy was put at, status how the function stands
WipeStart(gl, cfg) ==
    [gcode_lines |-> gl, cfg |-> cfg, status |-> "loop", n |-> 0, copies |-> << >>,
     processed_gcode_lines |-> << >>, i |-> 0, custom_hop_enabled |-> FALSE,
     z_change_idx |-> None, current_point |-> undefined, prev_xy_point |-> undefined]

\* processed_gcode_lines[z_change_idx] = ""; z_change_idx = None
ZChangeRemoved(w) ==
    IF w.z_change_idx = None THEN w
    ELSE [w EXCEPT !.processed_gcode_lines[w.z_change_idx[1] + 1] = << >>,
                   !.z_change_idx = None]

\* a variant of InsertedCount: the cursor is not moved past the inserted lines
InsertedCountNone(gcode_len, new_len) == 0

\* len(processed_gcode_lines) - gcode_len
InsertedCount(gcode_len, new_len) == new_len - gcode_len

\* "Travel move over threshold found": the five lines put around the travel
\* move, wp being the wipe point
WipeInserted(w, line, new_point, wp) ==
    [w EXCEPT !.processed_gcode_lines =
                  SubSeq(w.processed_gcode_lines, 1, Len(w.processed_gcode_lines) - 1)
                  \o << WIPE_START,
                        WipeMoveLine(wp, w.cfg.travel_speed),
                        WIPE_END,
                        ZMoveLine(w.current_point.z[1] + w.cfg.retract_lift, w.cfg.travel_speed_z),
                        line,
                        ZMoveLine(new_point.z[1], w.cfg.travel_speed_z) >>,
              !.copies[Len(w.copies)] = Len(w.processed_gcode_lines) + 3,
              !.i = w.i + InsertedCount(Len(w.processed_gcode_lines),
                                        Len(w.processed_gcode_lines) + 5)]

\* the travel branch for the result wr of wipe_point
WipeTravel(w, line, new_point, wr) ==
    IF wr.raised # "no" THEN [w EXCEPT !.status = wr.raised]
    ELSE WipeInserted(w, line, new_point, wr.point)

\* if current_point.is_fully_defined: ...
WipeDefined(w, line, g1, new_point) ==
    IF g1.e = None /\ SquareDist(w.current_point, new_point) > w.cfg.wipe_threshold * w.cfg.wipe_threshold
    THEN WipeTravel(ZChangeRemoved(w), line, new_point,
                    wipe_point(w.current_point, w.prev_xy_point, w.cfg.wipe_dist))
    ELSE IF g1.z # None THEN [w EXCEPT !.z_change_idx = Some(w.i)]
    ELSE w

\* prev_xy_point and current_point at the end of the branch of a parsed move
WipeTracked(w, old_point, new_point) ==
    IF w.status # "loop" THEN w
    ELSE [w EXCEPT !.prev_xy_point = IF ~is_xy_equal(new_point, old_point)
                                     THEN old_point ELSE w.prev_xy_point,
                   !.current_point = new_point]

\* elif custom_hop_enabled: g1 = parse_line(line) ...
WipeMove(w, line, g1) ==
    IF g1.kind = "ValueError" THEN [w EXCEPT !.status = "ValueError"]
    ELSE IF g1.kind # "G1" THEN w
    ELSE WipeTracked(IF is_fully_defined(w.current_point)
                     THEN WipeDefined(w, line, g1, updated_with_g1_move(w.current_point, g1))
                     ELSE w,
                     w.current_point, updated_with_g1_move(w.current_point, g1))

\* the if / elif chain of the loop body on the line just appended
WipeBody(w, line) ==
    IF line = CUSTOM_HOP_ENABLED THEN [w EXCEPT !.custom_hop_enabled = TRUE]
    ELSE IF line = CUSTOM_HOP_DISABLED
    THEN [w EXCEPT !.custom_hop_enabled = FALSE, !.z_change_idx = None,
                   !.current_point = undefined, !.prev_xy_point = undefined]
    ELSE IF w.custom_hop_enabled THEN WipeMove(w, line, parse_line(line))
    ELSE w

\* i += 1, and the loop takes the next line
WipeAdvanced(w) ==
    IF w.status # "loop" THEN w ELSE [w EXCEPT !.i = w.i + 1, !.n = w.n + 1]

\* one pass of the loop: processed_gcode_lines.append(line), the body, i += 1
WipeIteration(w, line) ==
    WipeAdvanced(WipeBody([w EXCEPT !.processed_gcode_lines = Append(w.processed_gcode_lines, line),
                                    !.copies = Append(w.copies, Len(w.processed_gcode_lines))],
                          line))

\* ------------------------------------------------------------------------
\* TravelExtrusionMultiplier: Line.process_gcode_lines
\* ------------------------------------------------------------------------
\* --travel-multiplier-distance 1, --travel-extrusion-multiplier 2.0 (as a
\* float in 1/Scale units and as str() prints it)
TravelConfigs ==
    { [retract_len |-> 1 * Scale, deretract_speed |-> 1 * 60 * Scale,
       travel_multiplier_distance |-> 1 * Scale,
       travel_extrusion_multiplier |-> 2 * Scale,
       multiplier_text |-> << "2", ".", "0" >>] }

Segments ==
        \* the lines of a segment: the deretraction, extrusions to (2,0), (0,0) and
        \* (0.5,0), a travel move to (2,0)
    LET SegmentPool ==
            { << "G", "1", " ", "E", "1", " ", "F", "6", "0" >>,
              << "G", "1", " ", "X", "2", " ", "Y", "0", " ", "E", "1" >>,
              << "G", "1", " ", "X", "0", " ", "Y", "0", " ", "E", "1" >>,
              << "G", "1", " ", "X", ".", "5", " ", "Y", "0", " ", "E", "1" >>,
              << "G", "1", " ", "X", "2", " ", "Y", "0" >> }
        \* the lines around the gate of has_deretraction: the deretraction, an
        \* extrusion, E+F moves with another speed and with another length
        GatePool ==
            { << "G", "1", " ", "E", "1", " ", "F", "6", "0" >>,
              << "G", "1", " ", "X", "2", " ", "Y", "0", " ", "E", "1" >>,
              << "G", "1", " ", "E", "1", " ", "F", "6" >>,
              << "G", "1", " ", "E", "1", ".", "0", "0", "1", " ", "F", "6", "0" >> }
    IN  UNION { [1..n -> SegmentPool] : n \in 0..MaxSeg } \cup [1..(5 + 1) -> GatePool]

\* where a segment may start: nowhere yet, or at (0,0,1)
SegmentStarts == { undefined, Point(Some(0), Some(0), Some(1 * Scale)) }

\* f"G1 X{gcode_fmt(p.x)} Y{gcode_fmt(p.y)} E{gcode_fmt(e, precision=5)}" and
\* the comment after it; e6 is e in units of 10^-6
TravelMoveLine(p, e6, comment) ==
    << "G", "1", " ", "X" >> \o gcode_fmt(OfScale(p.x[1]), 3) \o << " ", "Y" >> \o gcode_fmt(OfScale(p.y[1]), 3)
        \o << " ", "E" >> \o gcode_fmt(Dec(e6, 6), 5) \o comment

\* " ; TEM Updated ({travel_extrusion_multiplier}x)" and " ; TEM Updated"
UpdatedBy(cfg) == << " ", ";", " ", "T", "E", "M", " ", "U", "p", "d", "a", "t", "e", "d", " ", "(" >> \o cfg.multiplier_text \o << "x", ")" >>
Updated == << " ", ";", " ", "T", "E", "M", " ", "U", "p", "d", "a", "t", "e", "d" >>

\* Point.waypoint for distance < point_dist
waypoint(self, point, distance, point_dist) ==
    Point(Some(self.x[1] + RoundDiv((point.x[1] - self.x[1]) * distance, point_dist)),
          Some(self.y[1] + RoundDiv((point.y[1] - self.y[1]) * distance, point_dist)),
          self.z)

\* the two lines that replace a move of extrusion e crossing the remaining
\* distance: to the waypoint with e * waypoint_proportion * multiplier, then
\* to the target with e * (1.0 - waypoint_proportion)
SplitLines(cfg, current_point, new_point, e, remaining, extrusion_distance) ==
    << TravelMoveLine(waypoint(current_point, new_point, remaining, extrusion_distance),
                      RoundDiv(e * remaining * cfg.travel_extrusion_multiplier, extrusion_distance),
                      UpdatedBy(cfg)),
       TravelMoveLine(new_point,
                      RoundDiv(e * Scale * (extrusion_distance - remaining), extrusion_distance),
                      Updated) >>

\* a variant of ScaledLine: the extrusion is written as it was
UnscaledLine(cfg, new_point, e) ==
    TravelMoveLine(new_point, e * Scale, UpdatedBy(cfg))

\* the line that replaces a move of extrusion e lying inside the distance
ScaledLine(cfg, new_point, e) ==
    TravelMoveLine(new_point, e * cfg.travel_extrusion_multiplier, UpdatedBy(cfg))

\* an extrusion move that changes the planar position, of length
\* extrusion_distance; splits keeps, for every move split in two, its
\* extrusion and the index in lines of the first of the two lines
TravelExtrusion(cfg, st, g1, new_point, extrusion_distance) ==
    [st EXCEPT
        !.lines = IF st.current_extrusion_remaining >= extrusion_distance
                  THEN Append(st.lines, ScaledLine(cfg, new_point, g1.e[1]))
                  ELSE st.lines \o SplitLines(cfg, st.current_point, new_point, g1.e[1],
                                              st.current_extrusion_remaining, extrusion_distance),
        !.splits = IF st.current_extrusion_remaining >= extrusion_distance
                   THEN st.splits
                   ELSE Append(st.splits, [e |-> g1.e[1], at |-> Len(st.lines),
                                           from |-> st.current_point, to |-> new_point,
                                           remaining |-> st.current_extrusion_remaining]),
        !.current_extrusion_remaining = st.current_extrusion_remaining - extrusion_distance,
        !.current_point = new_point]

\* the loop of Line.process_gcode_lines from line i (1-based) on
RECURSIVE TravelLoop(_, _, _, _)
RECURSIVE TravelStep(_, _, _, _, _, _)
TravelLoop(cfg, gl, i, st) ==
    IF i > Len(gl) \/ st.raised # "no" THEN st
    ELSE IF st.current_extrusion_remaining > 0
    THEN TravelStep(cfg, gl, i, st, parse_line(gl[i]),
                    updated_with_g1_move(st.current_point, parse_line(gl[i])))
    ELSE TravelLoop(cfg, gl, i + 1, [st EXCEPT !.lines = Append(st.lines, gl[i])])

TravelStep(cfg, gl, i, st, g1, new_point) ==
    IF g1.kind = "ValueError" THEN [st EXCEPT !.raised = "ValueError"]
    ELSE IF g1.kind # "G1"
    THEN TravelLoop(cfg, gl, i + 1, [st EXCEPT !.lines = Append(st.lines, gl[i])])
    ELSE IF g1.e # None /\ g1.e[1] > 0 /\ ~is_xy_equal(st.current_point, new_point)
    THEN IF st.current_point.x = None \/ st.current_point.y = None
         THEN [st EXCEPT !.raised = "TypeError"]
         ELSE TravelLoop(cfg, gl, i + 1,
                         TravelExtrusion(cfg, st, g1, new_point, xy_dist(st.current_point, new_point)))
    ELSE TravelLoop(cfg, gl, i + 1,
                    [st EXCEPT !.current_point = new_point, !.lines = Append(st.lines, gl[i])])

\* Line.process_gcode_lines of TravelExtrusionMultiplier
TravelLines(cfg, gl, start_point, enabled) ==
    IF ~enabled \/ ~has_deretraction(cfg, gl)
    THEN [raised |-> "no", lines |-> gl, splits |-> << >>, current_point |-> start_point,
          current_extrusion_remaining |-> cfg.travel_multiplier_distance]
    ELSE TravelLoop(cfg, gl, 1,
                    [raised |-> "no", lines |-> << >>, splits |-> << >>,
                     current_point |-> start_point,
                     current_extrusion_remaining |-> cfg.travel_multiplier_distance])

\* ------------------------------------------------------------------------
\* ColorBlip: Layer.print
\* ------------------------------------------------------------------------
\* Line.type_removed
type_removed(gl) == SelectSeq(gl, LAMBDA line : ~startswith(line, TYPE_ID))

\* the test of retractions_removed and get_retraction_count on a line: a
\* move with an E field and none of X, Y, Z
IsRetraction(line) ==
    LET g1 == parse_line(line)
    IN  g1.kind = "G1" /\ g1.x = None /\ g1.y = None /\ g1.z = None /\ g1.e # None

\* a variant of retractions_removed: nothing is removed
retractions_kept(gl) == gl

\* Line.retractions_removed: the last such move among the last 4 lines (the
\* first line left out) goes with everything after it, then the first such
\* move among the first 5 lines goes
retractions_removed(gl) ==
    LET n == Len(gl)
        first_i == IF n < 5 THEN 1 - n ELSE 0 - 4
        tail == { k \in 1..n : k >= n + 1 + first_i /\ IsRetraction(gl[k]) }
        cut == IF tail = {} THEN gl
               ELSE SubSeq(gl, 1, (CHOOSE k \in tail : \A j \in tail : j <= k) - 1)
        head == { k \in 1..(IF Len(cut) < 5 THEN Len(cut) ELSE 5) : IsRetraction(cut[k]) }
        i == CHOOSE k \in head : \A j \in head : k <= j
    IN  IF head = {} THEN cut
        ELSE SubSeq(cut, 1, i - 1) \o SubSeq(cut, i + 1, Len(cut))

\* Line.process_gcode_lines of ColorBlip
BlipLines(gl, enabled) == IF enabled THEN retractions_removed(type_removed(gl)) ELSE gl

\* a variant of line_length: the length of the path, each move measured
\* from where the one before it ended
RECURSIVE path_length(_, _, _)
path_length(current_point, lines, length) ==
    IF lines = << >> THEN [raised |-> "no", v |-> length]
    ELSE LET To(new_point) ==
                 IF new_point.x = None \/ new_point.y = None
                    \/ current_point.x = None \/ current_point.y = None
                 THEN [raised |-> "TypeError", v |-> 0]
                 ELSE path_length(new_point, Tail(lines), length + xy_dist(current_point, new_point))
             Moved(g1) ==
                 IF g1.kind # "G1" THEN path_length(current_point, Tail(lines), length)
                 ELSE To(updated_with_g1_move(current_point, g1))
         IN  Moved(parse_line(Head(lines)))

\* Line.line_length, called with self.start_point and length 0: the loop
\* never moves current_point, so every move is measured from the start of
\* the segment
RECURSIVE line_length(_, _, _)
line_length(current_point, lines, length) ==
    IF lines = << >> THEN [raised |-> "no", v |-> length]
    ELSE LET To(new_point) ==
                 IF new_point.x = None \/ new_point.y = None
                    \/ current_point.x = None \/ current_point.y = None
                 THEN [raised |-> "TypeError", v |-> 0]
                 ELSE line_length(current_point, Tail(lines), length + xy_dist(current_point, new_point))
             Moved(g1) ==
                 IF g1.kind # "G1" THEN line_length(current_point, Tail(lines), length)
                 ELSE To(updated_with_g1_move(current_point, g1))
         IN  Moved(parse_line(Head(lines)))

\* list.insert(position, line) for 0 <= position
InsertAt(lines, position, line) ==
    LET at == IF position > Len(lines) THEN Len(lines) ELSE position
    IN  SubSeq(lines, 1, at) \o << line >> \o SubSeq(lines, at + 1, Len(lines))

\* Line.add_deretraction(position); None is position 1
add_deretraction(cfg, lines, position) ==
    IF cfg.retract_len > 0
    THEN InsertAt(lines, IF position = None THEN 1 ELSE position[1],
                  << "G", "1", " ", "E" >> \o gcode_fmt(OfScale(cfg.retract_len), 3)
                      \o << " ", "F" >> \o DigitsOf(cfg.retract_speed))
    ELSE lines

\* Line.add_retraction(position); None is len(self.lines)
add_retraction(cfg, lines, position) ==
    IF cfg.retract_len > 0
    THEN LET at == IF position = None THEN Len(lines) ELSE position[1]
         IN  InsertAt(InsertAt(lines, at,
                               << "G", "1", " ", "E", "-" >> \o gcode_fmt(OfScale(cfg.retract_len), 3)
                                   \o << " ", "F" >> \o DigitsOf(cfg.retract_speed)),
                      at + 1, << "G", "1", " ", "F" >> \o DigitsOf(cfg.travel_speed))
    ELSE lines

\* Line.add_start_feedrate: what it raises, and self.lines after it
add_start_feedrate(cfg, lines) ==
    LET Fed(g1) ==
            IF g1.kind # "G1" THEN [raised |-> "AttributeError", lines |-> lines]
            ELSE IF g1.f = None
            THEN [raised |-> "no",
                  lines |-> << lines[1] \o << " ", "F" >> \o DigitsOf(cfg.travel_speed) >>
                                \o Tail(lines)]
            ELSE [raised |-> "no", lines |-> lines]
    IN  IF lines = << >> THEN [raised |-> "IndexError", lines |-> lines]
        ELSE Fed(parse_line(lines[1]))

\* the first valid line of a layer that is retracted at the layer change
StartOfLayer(cfg, lines, has_layer_color_change) ==
    add_start_feedrate(cfg, IF has_layer_color_change
                            THEN add_retraction(cfg, add_deretraction(cfg, lines, None), Some(0))
                            ELSE add_deretraction(cfg, lines, None))

\* The loop of Layer.print over valid_lines, at index i (from 1).  st.segs
\* holds self.lines of every valid line, st.gcode_lines the list returned.
RECURSIVE PrintLoop(_, _, _, _, _)
PrintLoop(cfg, valid_lines, has_layer_color_change, i, st) ==
    IF i > Len(valid_lines) \/ st.raised # "no" THEN st
    ELSE LET Added(typed, far, lines) ==
                 PrintLoop(cfg, valid_lines, has_layer_color_change, i + 1,
                     [st EXCEPT
                        !.segs = IF far
                                 THEN [@ EXCEPT ![i] = lines,
                                                ![i + 1] = add_deretraction(cfg, @, None)]
                                 ELSE [@ EXCEPT ![i] = lines],
                        !.current_type = IF typed THEN valid_lines[i].type ELSE @,
                        !.gcode_lines = @ \o (IF typed THEN valid_lines[i].type ELSE << >>) \o lines])
             Started(typed, far, started) ==
                 IF started.raised # "no" THEN [st EXCEPT !.raised = started.raised]
                 ELSE Added(typed, far,
                            IF far THEN add_retraction(cfg, started.lines, None) ELSE started.lines)
         IN  Started(valid_lines[i].type # None /\ valid_lines[i].type # st.current_type,
                     /\ i < Len(valid_lines)
                     /\ xy_dist(valid_lines[i].end_point, valid_lines[i + 1].start_point)
                            > cfg.wipe_threshold,
                     IF i = 1 /\ cfg.retract_layer_change
                     THEN StartOfLayer(cfg, st.segs[i], has_layer_color_change)
                     ELSE [raised |-> "no", lines |-> st.segs[i]])

\* the Line nodes of a layer of ColorBlip as Line.__init__ leaves them:
\* self.lines = self.process_gcode_lines(gcode_lines, enabled)
BlipNodes(layer) ==
    [k \in 1..Len(layer.lines) |->
        [layer.lines[k] EXCEPT !.gcode_lines = BlipLines(@, layer.lines[k].enabled)]]

\* Layer.print of ColorBlip on a layer whose Line nodes are lines.  valid
\* holds the indices in self.lines of the lines kept, segs self.lines of
\* each of them once the loop has inserted into it.
BlipPrinted(cfg, layer, lines) ==
    LET Valid(nodes, valid) ==
            PrintLoop(cfg, [j \in 1..Len(valid) |-> nodes[valid[j]]],
                      \E k \in 1..Len(layer.pre_print) : layer.pre_print[k] = << "M", "6", "0", "0" >>,
                      1,
                      [raised |-> "no", valid |-> valid,
                       segs |-> [j \in 1..Len(valid) |-> nodes[valid[j]].gcode_lines],
                       current_type |-> None, gcode_lines |-> << >>])
        Measured(lengths) ==
            IF \E k \in 1..Len(lines) : lengths[k].raised # "no"
            THEN [raised |-> "TypeError", valid |-> << >>, segs |-> << >>, current_type |-> None,
                  gcode_lines |-> << >>]
            ELSE Valid(lines, SelectSeq([k \in 1..Len(lines) |-> k],
                                        LAMBDA k : lengths[k].v > cfg.nozzle_diameter))
    IN  IF ~layer.enabled
        THEN [raised |-> "no", valid |-> [k \in 1..Len(lines) |-> k],
              segs |-> [k \in 1..Len(lines) |-> lines[k].gcode_lines], current_type |-> None,
              gcode_lines |-> Concat([k \in 1..Len(lines) |-> lines[k].gcode_lines])]
        ELSE Measured([k \in 1..Len(lines) |->
                          line_length(lines[k].start_point, lines[k].gcode_lines, 0)])

\* Layer.print of ColorBlip, the first time it is called: self.lines of
\* every Line is what Line.process_gcode_lines made of its segment
BlipPrint(cfg, layer) == BlipPrinted(cfg, layer, BlipNodes(layer))

\* the settings of a ColorBlip run: nozzle_diameter 0.4, wipe_threshold 1,
\* retract_length 1, retract_speed and travel_speed 1 (mm/s)
BlipConfigs ==
    { [nozzle_diameter |-> 4 * (Scale \div 10), wipe_threshold |-> 1 * Scale,
       retract_len |-> 1 * Scale, retract_speed |-> 1 * 60, travel_speed |-> 1 * 60,
       retract_layer_change |-> b] : b \in BOOLEAN }

\* the settings and the enabled flag of the layers built: an enabled layer
\* with either retract_layer_change, a disabled one
BlipModes ==
    { [cfg |-> c, enabled |-> TRUE] : c \in BlipConfigs }
    \cup { [cfg |-> c, enabled |-> FALSE] : c \in { d \in BlipConfigs : ~d.retract_layer_change } }

\* the lines of a layer handed to Layer on its own: travel moves to (0,0),
\* (1,0) and (2,0), an extrusion to (0.3,0), a retraction, a retraction
\* written with the coordinates it is issued at, (0.3,0), and a
\* deretraction written with the coordinates it is issued at, (1,0)
BlipLayers ==
    LET BlipPool ==
            { << "G", "1", " ", "X", "0", " ", "Y", "0" >>,
              << "G", "1", " ", "X", "1", " ", "Y", "0" >>,
              << "G", "1", " ", "X", "2", " ", "Y", "0" >>,
              << "G", "1", " ", "X", ".", "3", " ", "Y", "0", " ", "E", "1" >>,
              << "G", "1", " ", "E", "-", "1", " ", "F", "6", "0" >>,
              << "G", "1", " ", "X", ".", "3", " ", "Y", "0", " ", "E", "-", "1", " ", "F", "6", "0" >>,
              << "G", "1", " ", "X", "1", " ", "Y", "0", " ", "E", "1", " ", "F", "6", "0" >> }
    IN  UNION { [1..n -> BlipPool] : n \in 0..MaxBlip }

\* ------------------------------------------------------------------------
\* Startup: the settings read from the configuration comments
\* ------------------------------------------------------------------------
\* the line prefixes that name a setting
Id ==
    [TRAVEL_SPEED_ID |-> << ";", " ", "t", "r", "a", "v", "e", "l", "_", "s", "p", "e", "e", "d", " " >>,
     TRAVEL_SPEED_Z_ID |-> << ";", " ", "t", "r", "a", "v", "e", "l", "_", "s", "p", "e", "e", "d", "_", "z", " " >>,
     NOZZLE_DIAMETER_ID |-> << ";", " ", "n", "o", "z", "z", "l", "e", "_", "d", "i", "a", "m", "e", "t", "e", "r" >>,
     RETRACT_BEFORE_TRAVEL_ID |-> << ";", " ", "r", "e", "t", "r", "a", "c", "t", "_", "b", "e", "f", "o", "r", "e", "_", "t", "r", "a", "v", "e", "l", " " >>,
     FILAMENT_RETRACT_BEFORE_TRAVEL_ID |-> << ";", " ", "f", "i", "l", "a", "m", "e", "n", "t", "_", "r", "e", "t", "r", "a", "c", "t", "_", "b", "e", "f", "o", "r", "e", "_", "t", "r", "a", "v", "e", "l", " " >>,
     RETRACT_LENGTH_ID |-> << ";", " ", "r", "e", "t", "r", "a", "c", "t", "_", "l", "e", "n", "g", "t", "h", " " >>,
     FILAMENT_RETRACT_LENGTH_ID |-> << ";", " ", "f", "i", "l", "a", "m", "e", "n", "t", "_", "r", "e", "t", "r", "a", "c", "t", "_", "l", "e", "n", "g", "t", "h", " " >>,
     RETRACT_SPEED_ID |-> << ";", " ", "r", "e", "t", "r", "a", "c", "t", "_", "s", "p", "e", "e", "d", " " >>,
     FILAMENT_RETRACT_SPEED_ID |-> << ";", " ", "f", "i", "l", "a", "m", "e", "n", "t", "_", "r", "e", "t", "r", "a", "c", "t", "_", "s", "p", "e", "e", "d", " " >>,
     RETRACT_LAYER_CHANGE |-> << ";", " ", "r", "e", "t", "r", "a", "c", "t", "_", "l", "a", "y", "e", "r", "_", "c", "h", "a", "n", "g", "e", " " >>,
     FILAMENT_RETRACT_LAYER_CHANGE |-> << ";", " ", "f", "i", "l", "a", "m", "e", "n", "t", "_", "r", "e", "t", "r", "a", "c", "t", "_", "l", "a", "y", "e", "r", "_", "c", "h", "a", "n", "g", "e", " " >>,
     DERETRACT_SPEED_ID |-> << ";", " ", "d", "e", "r", "e", "t", "r", "a", "c", "t", "_", "s", "p", "e", "e", "d" >>,
     FILAMENT_DERETRACT_SPEED_ID |-> << ";", " ", "f", "i", "l", "a", "m", "e", "n", "t", "_", "d", "e", "r", "e", "t", "r", "a", "c", "t", "_", "s", "p", "e", "e", "d" >>,
     WIPE_ID |-> << ";", " ", "w", "i", "p", "e", " " >>,
     FILAMENT_WIPE_ID |-> << ";", " ", "f", "i", "l", "a", "m", "e", "n", "t", "_", "w", "i", "p", "e", " " >>,
     Z_HOP_ID |-> << ";", " ", "r", "e", "t", "r", "a", "c", "t", "_", "l", "i", "f", "t", " " >>,
     FILAMENT_Z_HOP_ID |-> << ";", " ", "f", "i", "l", "a", "m", "e", "n", "t", "_", "r", "e", "t", "r", "a", "c", "t", "_", "l", "i", "f", "t", " " >>,
     ARC_FITTING |-> << ";", " ", "a", "r", "c", "_", "f", "i", "t", "t", "i", "n", "g" >>,
     PRUSA_CONFIG_ID |-> << ";", " ", "p", "r", "u", "s", "a", "s", "l", "i", "c", "e", "r", "_", "c", "o", "n", "f", "i", "g", " ", "=", " " >>]

\* line.split("=")[-1]: the text after the last "="
LastField(line) ==
    LET eqs == { k \in 1..Len(line) : line[k] = "=" }
        last == IF eqs = {} THEN 0 ELSE CHOOSE k \in eqs : \A j \in eqs : j <= k
    IN  SubSeq(line, last + 1, Len(line))

\* str.strip(): the spaces at both ends removed
RECURSIVE strip(_)
strip(t) ==
    IF t # << >> /\ t[1] = " " THEN strip(Tail(t))
    ELSE IF t # << >> /\ t[Len(t)] = " " THEN strip(SubSeq(t, 1, Len(t) - 1))
    ELSE t

\* value.split(",")[0]
FirstField(t) ==
    SubSeq(t, 1, RunEnd(t, 1, { t[k] : k \in 1..Len(t) } \ { "," }) - 1)

\* the inner loop of get_value_for_id over reversed(gcode_lines), at line k;
\* ColorBlip passes over a value of nil, the other tools return it
RECURSIVE ValueScan(_, _, _, _)
ValueScan(gcode_id, gl, k, skip_nil) ==
    IF k = 0 THEN None
    ELSE IF startswith(gl[k], gcode_id)
    THEN IF skip_nil /\ strip(LastField(gl[k])) = << "n", "i", "l" >>
         THEN ValueScan(gcode_id, gl, k - 1, skip_nil)
         ELSE Some(strip(LastField(gl[k])))
    ELSE IF /\ startswith(gl[k], Id.PRUSA_CONFIG_ID)
            /\ strip(LastField(gl[k])) = << "b", "e", "g", "i", "n" >>
    THEN None
    ELSE ValueScan(gcode_id, gl, k - 1, skip_nil)

\* get_value_for_id: id is the sequence of prefixes tried in turn; None when
\* the loops end without a return
RECURSIVE get_value_for_id(_, _, _)
get_value_for_id(id, gl, skip_nil) ==
    IF id = << >> THEN None
    ELSE LET value == ValueScan(Head(id), gl, Len(gl), skip_nil)
         IN  IF value # None THEN value ELSE get_value_for_id(Tail(id), gl, skip_nil)

\* int(text) of the texts a setting holds
int(text) ==
    IF text # << >> /\ \A k \in 1..Len(text) : text[k] \in Digits
    THEN [ok |-> TRUE, v |-> IntPart(text)]
    ELSE [ok |-> FALSE, v |-> 0]

\* conv(value) or conv(value.split(",")[0]) of what get_value_for_id returned:
\* the exception raised, or the number (float in 1/Scale units, int as it is)
Setting(value, conv, split) ==
    IF value = None
    THEN [raised |-> IF split THEN "AttributeError" ELSE "TypeError", v |-> 0]
    ELSE LET text == IF split THEN FirstField(value[1]) ELSE value[1]
             r == IF conv = "int" THEN int(text) ELSE float(text)
         IN  IF r.ok THEN [raised |-> "no", v |-> r.v]
             ELSE [raised |-> "ValueError", v |-> 0]

\* the exception of the first statement that raises
FirstRaised(rs) ==
    LET bad == { k \in 1..Len(rs) : rs[k].raised # "no" }
    IN  IF bad = {} THEN "no" ELSE rs[CHOOSE k \in bad : \A j \in bad : k <= j].raised

\* GCodeConfig.__init__ of GapCloser and TravelExtrusionMultiplier
GapConfig(gl) ==
    LET retract_len ==
            Setting(get_value_for_id(<< Id.FILAMENT_RETRACT_LENGTH_ID, Id.RETRACT_LENGTH_ID >>,
                                     gl, FALSE), "float", FALSE)
        deretract_speed ==
            Setting(get_value_for_id(<< Id.FILAMENT_DERETRACT_SPEED_ID, Id.DERETRACT_SPEED_ID >>,
                                     gl, FALSE), "int", FALSE)
        arc_fitting == get_value_for_id(<< Id.ARC_FITTING >>, gl, FALSE)
    IN  [raised          |-> FirstRaised(<< retract_len, deretract_speed >>),
         retract_len     |-> retract_len.v,
         deretract_speed |-> deretract_speed.v * 60 * Scale,
         arc_fitting     |-> arc_fitting = Some(<< "e", "m", "i", "t", "_", "c", "e", "n", "t", "e", "r" >>)]

\* GCodeConfig.__init__ of ColorBlip
BlipConfig(gl) ==
    LET travel_speed == Setting(get_value_for_id(<< Id.TRAVEL_SPEED_ID >>, gl, TRUE), "int", FALSE)
        travel_speed_z == Setting(get_value_for_id(<< Id.TRAVEL_SPEED_Z_ID >>, gl, TRUE), "int", FALSE)
        nozzle_diameter == Setting(get_value_for_id(<< Id.NOZZLE_DIAMETER_ID >>, gl, TRUE), "float", TRUE)
        wipe_threshold ==
            Setting(get_value_for_id(<< Id.FILAMENT_RETRACT_BEFORE_TRAVEL_ID, Id.RETRACT_BEFORE_TRAVEL_ID >>,
                                     gl, TRUE), "float", TRUE)
        retract_len ==
            Setting(get_value_for_id(<< Id.FILAMENT_RETRACT_LENGTH_ID, Id.RETRACT_LENGTH_ID >>,
                                     gl, TRUE), "float", TRUE)
        retract_speed ==
            Setting(get_value_for_id(<< Id.FILAMENT_RETRACT_SPEED_ID, Id.RETRACT_SPEED_ID >>,
                                     gl, TRUE), "int", TRUE)
        retract_layer_change ==
            Setting(get_value_for_id(<< Id.FILAMENT_RETRACT_LAYER_CHANGE, Id.RETRACT_LAYER_CHANGE >>,
                                     gl, TRUE), "int", TRUE)
        wipe == Setting(get_value_for_id(<< Id.FILAMENT_WIPE_ID, Id.WIPE_ID >>, gl, TRUE), "int", TRUE)
        z_hop == Setting(get_value_for_id(<< Id.FILAMENT_Z_HOP_ID, Id.Z_HOP_ID >>, gl, TRUE), "float", TRUE)
    IN  [raised |-> FirstRaised(<< travel_speed, travel_speed_z, nozzle_diameter, wipe_threshold,
                                   retract_len, retract_speed, retract_layer_change, wipe, z_hop >>),
         travel_speed         |-> travel_speed.v * 60,
         travel_speed_z       |-> travel_speed_z.v * 60,
         nozzle_diameter      |-> nozzle_diameter.v,
         wipe_threshold       |-> wipe_threshold.v,
         retract_len          |-> retract_len.v,
         retract_speed        |-> retract_speed.v * 60,
         retract_layer_change |-> retract_layer_change.v = 1,
         wipe                 |-> wipe.v = 1,
         z_hop                |-> z_hop.v]

\* a variant of GapInit: arc_fitting is not looked at
GapInitAny(cfg) == [raised |-> "no", message |-> ""]

\* GCode.__init__ of GapCloser and TravelExtrusionMultiplier, up to the call
\* of process_gcode_lines
GapInit(cfg) ==
    IF cfg.arc_fitting
    THEN [raised |-> "RuntimeError", message |-> "Arc Fitting is not supported."]
    ELSE [raised |-> "no", message |-> ""]

\* GCode.__init__ of ColorBlip, up to the call of process_gcode_lines
BlipInit(cfg) ==
    IF cfg.raised # "no" THEN [raised |-> cfg.raised, message |-> ""]
    ELSE IF cfg.wipe
    THEN [raised  |-> "RuntimeError",
          message |-> "ColorBlip does not currently support 'Wipe while retracting'."]
    ELSE IF cfg.z_hop > 0
    THEN [raised  |-> "RuntimeError",
          message |-> "ColorBlip does not currently support 'Lift Height' (aka Z-Hop)."]
    ELSE [raised |-> "no", message |-> ""]

\* the lines of ls at the indices in S, in order
RECURSIVE Kept(_, _)
Kept(ls, S) ==
    IF ls = << >> THEN << >>
    ELSE Kept(SubSeq(ls, 1, Len(ls) - 1), S) \o (IF Len(ls) \in S THEN << ls[Len(ls)] >> ELSE << >>)

\* at most one line of a set
Optional(S) == { << >> } \cup { << l >> : l \in S }

\* the configuration comments at the end of an input file: any of the
\* settings may be missing
Files(t) ==
        \* the configuration comments of a file for GapCloser and
        \* TravelExtrusionMultiplier, apart from arc_fitting
    LET GapSettings ==
            << << ";", " ", "r", "e", "t", "r", "a", "c", "t", "_", "l", "e", "n", "g", "t", "h", " ", "=", " ", "1" >>,
               << ";", " ", "d", "e", "r", "e", "t", "r", "a", "c", "t", "_", "s", "p", "e", "e", "d", " ", "=", " ", "1" >> >>
        \* the values arc_fitting is given
        ArcFittings ==
            { << ";", " ", "a", "r", "c", "_", "f", "i", "t", "t", "i", "n", "g", " ", "=", " ", "e", "m", "i", "t", "_", "c", "e", "n", "t", "e", "r" >>,
              << ";", " ", "a", "r", "c", "_", "f", "i", "t", "t", "i", "n", "g", " ", "=", " ", "d", "i", "s", "a", "b", "l", "e", "d" >> }
        \* the configuration comments of a file for ColorBlip, apart from wipe and
        \* retract_lift
        BlipSettings ==
            << << ";", " ", "t", "r", "a", "v", "e", "l", "_", "s", "p", "e", "e", "d", " ", "=", " ", "1" >>,
               << ";", " ", "t", "r", "a", "v", "e", "l", "_", "s", "p", "e", "e", "d", "_", "z", " ", "=", " ", "1" >>,
               << ";", " ", "n", "o", "z", "z", "l", "e", "_", "d", "i", "a", "m", "e", "t", "e", "r", " ", "=", " ", "0", ".", "4" >>,
               << ";", " ", "r", "e", "t", "r", "a", "c", "t", "_", "b", "e", "f", "o", "r", "e", "_", "t", "r", "a", "v", "e", "l", " ", "=", " ", "1" >>,
               << ";", " ", "r", "e", "t", "r", "a", "c", "t", "_", "l", "e", "n", "g", "t", "h", " ", "=", " ", "1" >>,
               << ";", " ", "r", "e", "t", "r", "a", "c", "t", "_", "s", "p", "e", "e", "d", " ", "=", " ", "1" >>,
               << ";", " ", "r", "e", "t", "r", "a", "c", "t", "_", "l", "a", "y", "e", "r", "_", "c", "h", "a", "n", "g", "e", " ", "=", " ", "0" >> >>
        \* the values wipe and retract_lift are given
        Wipes ==
            { << ";", " ", "w", "i", "p", "e", " ", "=", " ", "0" >>,
              << ";", " ", "w", "i", "p", "e", " ", "=", " ", "1" >> }
        Lifts ==
            { << ";", " ", "r", "e", "t", "r", "a", "c", "t", "_", "l", "i", "f", "t", " ", "=", " ", "0" >>,
              << ";", " ", "r", "e", "t", "r", "a", "c", "t", "_", "l", "i", "f", "t", " ", "=", " ", "0", ".", "2" >>,
              << ";", " ", "f", "i", "l", "a", "m", "e", "n", "t", "_", "r", "e", "t", "r", "a", "c", "t", "_", "l", "i", "f", "t", " ", "=", " ", "n", "i", "l" >> }
    IN  IF t = "ColorBlip"
        THEN { Kept(BlipSettings, S) \o w \o l :
                 S \in SUBSET (1..Len(BlipSettings)), w \in Optional(Wipes), l \in Optional(Lifts) }
        ELSE { b \o Kept(GapSettings, S) \o a :
                 b \in Optional({ Id.PRUSA_CONFIG_ID \o << "b", "e", "g", "i", "n" >> }),
                 S \in SUBSET (1..Len(GapSettings)), a \in Optional(ArcFittings) }

\* ------------------------------------------------------------------------
\* GCode: state of one run
\* ------------------------------------------------------------------------
VARIABLES
    tool,            \* which of the three tools runs
    config,          \* GCodeConfig: retract_len, deretract_speed (1/Scale units)
    gcode_lines,     \* the input stream
    pc,              \* position in GCode.__init__ / gcode_lines()
    current_point,   \* process_gcode_lines: running position
    region_enabled,  \* process_gcode_lines: the *_enabled toggle
    pre_end_idx,     \* process_gcode_lines: end of the pre-print region
    post_start_idx,  \* process_gcode_lines: start of the post-print region
    layer_start_idx, \* process_gcode_lines: None or <<index>>
    current_type,    \* process_gcode_lines (ColorBlip): None or <<type line>>
    layers,          \* the Layer nodes built so far
    out,             \* what gcode_lines() returned
    pline,           \* the line handed to parse_line
    presult,         \* what parse_line returned for pline
    fmt,             \* a call of gcode_fmt: value, precision, text returned
    wipe,            \* ColorWipe: the variables of process_gcode
    seg,             \* TravelExtrusionMultiplier: a segment handed to Line on its own
    main,            \* a run of main(): the input file, the step reached, what was raised
    blip             \* ColorBlip: a layer handed to Layer on its own, and what print returned

vars == << tool, config, gcode_lines, pc, current_point, region_enabled, pre_end_idx,
           post_start_idx, layer_start_idx, current_type, layers, out, pline, presult,
           fmt, wipe, seg, main, blip >>

\* the variables of GCode and of parse_line
gcode_vars == << tool, config, gcode_lines, current_point, region_enabled, pre_end_idx,
                 post_start_idx, layer_start_idx, current_type, layers, out, pline, presult >>

\* the variables of the functions that run outside GCode
call_vars == << fmt, wipe, seg, main, blip >>

\* a function that has not been called
NoCall == << >>

\* ------------------------------------------------------------------------
\* Input lines of the segmenter
\* ------------------------------------------------------------------------

\* the lines a stream of tool t is made of
Pool(t) ==
    LET G1_X1_Y1 == << "G", "1", " ", "X", "1", " ", "Y", "1" >>
        G1_X0_Y0 == << "G", "1", " ", "X", "0", " ", "Y", "0" >>
        G1_Z1 == << "G", "1", " ", "Z", "1" >>
        G1_X1_Y0_E1 == << "G", "1", " ", "X", "1", " ", "Y", "0", " ", "E", "1" >>
        G1_E1_F60 == << "G", "1", " ", "E", "1", " ", "F", "6", "0" >>
        G1_X == << "G", "1", " ", "X" >>
        TYPE_Perimeter == << ";", "T", "Y", "P", "E", ":", "P" >>
    IN  { LAYER_CHANGE_ID, M107, G1_X1_Y1, G1_X0_Y0 }
        \cup (CASE t = "GapCloser" ->
                    { DISABLED_ID(t), AFTER_LAYER_CHANGE_ID, G1_Z1, G1_X1_Y0_E1 }
                [] t = "TravelExtrusionMultiplier" ->
                    { DISABLED_ID(t), ENABLED_ID(t), G1_X1_Y0_E1, G1_E1_F60 }
                [] t = "ColorBlip" ->
                    { ENABLED_ID(t), AFTER_LAYER_CHANGE_ID, TYPE_Perimeter, G1_X })

Streams(t) == UNION { [1..n -> Pool(t)] : n \in 0..MaxLen }

\* the configuration of the run: retract_length 1, deretract_speed 1 (mm/s)
Configs == { [retract_len |-> 1 * Scale, deretract_speed |-> 1 * 60 * Scale] }

\* ------------------------------------------------------------------------
\* Lines handed to parse_line on their own
\* ------------------------------------------------------------------------
ParseLines ==
    LET ParseAlphabet == {"X", "Y", "E", "F", "0", "1", ".", "-", " ", ";"}
        ParsePrefixes == { << "G", "1", " " >>, << "G", "0", " " >> }
    IN  { p \o t : p \in ParsePrefixes,
                   t \in UNION { [1..n -> ParseAlphabet] : n \in 0..MaxTail } }

Pending == NotG1("pending")

\* ------------------------------------------------------------------------
\* GCode.process_gcode_lines
\* ------------------------------------------------------------------------
\* the variables of process_gcode_lines
Scan(err, enabled, point, type, pre, start, ls) ==
    [err |-> err, enabled |-> enabled, current_point |-> point, current_type |-> type,
     pre_end_idx |-> pre, layer_start_idx |-> start, layers |-> ls]

\* first loop: the pre-print scan, from line i on
RECURSIVE PrePrintLoop(_, _, _, _)
RECURSIVE PrePrintMove(_, _, _, _, _)
PrePrintLoop(t, gl, i, st) ==
    IF i >= Len(gl) THEN st
    ELSE IF gl[i + 1] = ENABLED_ID(t) THEN PrePrintLoop(t, gl, i + 1, [st EXCEPT !.enabled = TRUE])
    ELSE IF gl[i + 1] = DISABLED_ID(t) THEN PrePrintLoop(t, gl, i + 1, [st EXCEPT !.enabled = FALSE])
    ELSE IF gl[i + 1] = LAYER_CHANGE_ID THEN [st EXCEPT !.pre_end_idx = i]
    ELSE PrePrintMove(t, gl, i, st, parse_line(gl[i + 1]))

PrePrintMove(t, gl, i, st, g1) ==
    IF g1.kind = "ValueError" THEN [st EXCEPT !.err = TRUE]
    ELSE PrePrintLoop(t, gl, i + 1,
            IF g1.kind = "G1"
            THEN [st EXCEPT !.current_point = updated_with_g1_move(st.current_point, g1)]
            ELSE st)

\* a variant of M107Skipped: ColorBlip stops at the last M107 line like the others
M107SkippedNone(t) == 0

\* how many M107 lines the backward scan passes over before it stops at one
M107Skipped(t) == IF t = "ColorBlip" THEN 1 ELSE 0

\* second loop: the backward scan for the post-print region, at line i_rev
RECURSIVE PostPrintLoop(_, _, _, _)
PostPrintLoop(t, gl, i_rev, m107_cnt) ==
    IF i_rev < 0 THEN Len(gl)
    ELSE IF startswith(gl[i_rev + 1], M107)
         THEN IF m107_cnt = M107Skipped(t) THEN i_rev + 1
              ELSE PostPrintLoop(t, gl, i_rev - 1, m107_cnt + 1)
         ELSE PostPrintLoop(t, gl, i_rev - 1, m107_cnt)

\* gcode_lines[layer_start_idx:stop] with layer_start_idx possibly None
LayerSlice(gl, start, stop) ==
    IF start = None THEN Slice(gl, 0, stop) ELSE Slice(gl, start[1], stop)

\* the toggle value and the start point handed to Layer(...)
LayerEnabledArg(st) == st.enabled
LayerStartArg(st) == st.current_point

\* current_point = layer.end_point, current_type = layer.end_type,
\* layers.append(layer)
LayerAppended(st, layer) ==
    IF layer.err THEN [st EXCEPT !.err = TRUE]
    ELSE [st EXCEPT !.current_point = layer.end_point,
                    !.current_type = layer.end_type,
                    !.layers = Append(st.layers, layer)]

\* layer = Layer(gcode_lines[layer_start_idx:stop], ...) and what follows it
AppendLayer(t, cfg, gl, stop, st) ==
    LayerAppended(st, Layer(t, cfg, LayerSlice(gl, st.layer_start_idx, stop),
                            LayerStartArg(st), st.current_type, LayerEnabledArg(st)))

\* third loop: the layer split over gcode_lines[pre_end_idx:post_start_idx]
RECURSIVE LayerLoop(_, _, _, _, _, _)
LayerLoop(t, cfg, gl, i, stop, st) ==
    IF i >= stop \/ st.err THEN st
    ELSE IF gl[i + 1] = ENABLED_ID(t)
    THEN LayerLoop(t, cfg, gl, i + 1, stop, [st EXCEPT !.enabled = TRUE])
    ELSE IF gl[i + 1] = DISABLED_ID(t)
    THEN LayerLoop(t, cfg, gl, i + 1, stop, [st EXCEPT !.enabled = FALSE])
    ELSE IF gl[i + 1] = LAYER_CHANGE_ID
    THEN LayerLoop(t, cfg, gl, i + 1, stop,
            [(IF st.layer_start_idx # None THEN AppendLayer(t, cfg, gl, i, st) ELSE st)
                EXCEPT !.layer_start_idx = Some(i)])
    ELSE LayerLoop(t, cfg, gl, i + 1, stop, st)

\* ------------------------------------------------------------------------
\* Flattening: GCode.gcode_lines(), Layer.gcode_lines(), Line.gcode_lines()
\* ------------------------------------------------------------------------
\* Line.gcode_lines() of a segment that process_gcode_lines returned as it was
LineGcodeLines(l) == l.gcode_lines

\* Layer.print and Layer.gcode_lines()
LayerPrint(layer) == Concat([k \in 1..Len(layer.lines) |-> LineGcodeLines(layer.lines[k])])
LayerGcodeLines(layer) == layer.pre_print \o LayerPrint(layer)

\* GCode.print and GCode.gcode_lines()
GCodePrint(ls) == Concat([k \in 1..Len(ls) |-> LayerGcodeLines(ls[k])])
GCodeGcodeLines(gl, pre, post, ls) == Slice(gl, 0, pre) \o GCodePrint(ls) \o Slice(gl, post, Len(gl))

\* a segment of the tree takes the rewriting path of its tool
RewriteFires(ls) == \E a \in 1..Len(ls) : \E b \in 1..Len(ls[a].lines) : ls[a].lines[b].rewrite

\* ------------------------------------------------------------------------
\* Actions
\* ------------------------------------------------------------------------
Init ==
    /\ tool \in Tools
    /\ config \in Configs
    /\ gcode_lines \in Streams(tool)
    /\ pc = "pre_print"
    /\ current_point = undefined
    /\ region_enabled = DefaultEnabled(tool)
    /\ pre_end_idx = 0
    /\ post_start_idx = 0
    /\ layer_start_idx = None
    /\ current_type = None
    /\ layers = << >>
    /\ out = None
    /\ pline = << >>
    /\ presult = Pending
    /\ fmt = NoCall
    /\ wipe = NoCall
    /\ seg = NoCall
    /\ main = NoCall
    /\ blip = NoCall

\* the variables of process_gcode_lines as they stand in the state
ScanNow == Scan(FALSE, region_enabled, current_point, current_type, pre_end_idx,
                layer_start_idx, layers)

\* the state takes the variables of process_gcode_lines from st
ScanTo(st, next_pc) ==
    /\ pc' = IF st.err THEN "ValueError" ELSE next_pc
    /\ region_enabled' = st.enabled
    /\ current_point' = st.current_point
    /\ current_type' = st.current_type
    /\ pre_end_idx' = st.pre_end_idx
    /\ layer_start_idx' = st.layer_start_idx
    /\ layers' = st.layers

\* process_gcode_lines, first loop
PrePrintScan ==
    /\ pc = "pre_print"
    /\ ScanTo(PrePrintLoop(tool, gcode_lines, 0, ScanNow), "post_print")
    /\ UNCHANGED << tool, config, gcode_lines, post_start_idx, out, pline, presult >>
    /\ UNCHANGED call_vars

\* process_gcode_lines, second loop
PostPrintScan ==
    /\ pc = "post_print"
    /\ post_start_idx' = PostPrintLoop(tool, gcode_lines, Len(gcode_lines) - 1, 0)
    /\ pc' = "layers"
    /\ UNCHANGED << tool, config, gcode_lines, current_point, region_enabled, pre_end_idx,
                    layer_start_idx, current_type, layers, out, pline, presult >>
    /\ UNCHANGED call_vars

\* process_gcode_lines, third loop
LayerSplit ==
    /\ pc = "layers"
    /\ ScanTo(LayerLoop(tool, config, gcode_lines, pre_end_idx, post_start_idx, ScanNow),
              "last_layer")
    /\ UNCHANGED << tool, config, gcode_lines, post_start_idx, out, pline, presult >>
    /\ UNCHANGED call_vars

\* process_gcode_lines, "Handle the last layer", and the return
LastLayer ==
    /\ pc = "last_layer"
    /\ ScanTo(AppendLayer(tool, config, gcode_lines, post_start_idx, ScanNow), "built")
    /\ UNCHANGED << tool, config, gcode_lines, post_start_idx, out, pline, presult >>
    /\ UNCHANGED call_vars

\* gcode.gcode_lines() on a tree none of whose segments was rewritten
Flatten ==
    /\ pc = "built"
    /\ ~RewriteFires(layers)
    /\ out' = Some(GCodeGcodeLines(gcode_lines, pre_end_idx, post_start_idx, layers))
    /\ pc' = "done"
    /\ UNCHANGED << tool, config, gcode_lines, current_point, region_enabled, pre_end_idx,
                    post_start_idx, layer_start_idx, current_type, layers, pline, presult >>
    /\ UNCHANGED call_vars

\* gcode.gcode_lines() on a tree with a rewritten segment: the text of the
\* rewritten segments is the tool's policy and is not kept in out
FlattenRewritten ==
    /\ pc = "built"
    /\ RewriteFires(layers)
    /\ pc' = "done_rewritten"
    /\ UNCHANGED << tool, config, gcode_lines, current_point, region_enabled, pre_end_idx,
                    post_start_idx, layer_start_idx, current_type, layers, out, pline, presult >>
    /\ UNCHANGED call_vars

Next ==
    \/ PrePrintScan
    \/ PostPrintScan
    \/ LayerSplit
    \/ LastLayer
    \/ Flatten
    \/ FlattenRewritten

Spec == Init /\ [][Next]_vars

\* ------------------------------------------------------------------------
\* parse_line on its own
\* ------------------------------------------------------------------------
InitParse ==
    /\ tool = "GapCloser"
    /\ config \in Configs
    /\ gcode_lines = << >>
    /\ pc = "parse"
    /\ current_point = undefined
    /\ region_enabled = DefaultEnabled(tool)
    /\ pre_end_idx = 0
    /\ post_start_idx = 0
    /\ layer_start_idx = None
    /\ current_type = None
    /\ layers = << >>
    /\ out = None
    /\ pline \in ParseLines
    /\ presult = Pending
    /\ fmt = NoCall
    /\ wipe = NoCall
    /\ seg = NoCall
    /\ main = NoCall
    /\ blip = NoCall

ParseLine ==
    /\ pc = "parse"
    /\ presult' = parse_line(pline)
    /\ pc' = "parsed"
    /\ UNCHANGED << tool, config, gcode_lines, current_point, region_enabled, pre_end_idx,
                    post_start_idx, layer_start_idx, current_type, layers, out, pline >>
    /\ UNCHANGED call_vars

NextParse == ParseLine

SpecParse == InitParse /\ [][NextParse]_vars

\* ------------------------------------------------------------------------
\* The functions that run outside GCode
\* ------------------------------------------------------------------------
\* no GCode object is built and parse_line is not called on its own
NoGCode ==
    /\ tool = "GapCloser"
    /\ config \in Configs
    /\ gcode_lines = << >>
    /\ current_point = undefined
    /\ region_enabled = DefaultEnabled(tool)
    /\ pre_end_idx = 0
    /\ post_start_idx = 0
    /\ layer_start_idx = None
    /\ current_type = None
    /\ layers = << >>
    /\ out = None
    /\ pline = << >>
    /\ presult = Pending

\* ColorWipe: process_gcode is called on a stream
InitWipe ==
    /\ NoGCode
    /\ pc = "wipe"
    /\ fmt = NoCall
    /\ wipe \in { WipeStart(gl, cfg) : gl \in WipeStreams, cfg \in WipeConfigs }
    /\ seg = NoCall
    /\ main = NoCall
    /\ blip = NoCall

\* one pass of the loop of process_gcode
WipeScan ==
    /\ pc = "wipe"
    /\ wipe.status = "loop"
    /\ wipe.n < Len(wipe.gcode_lines)
    /\ wipe' = WipeIteration(wipe, wipe.gcode_lines[wipe.n + 1])
    /\ UNCHANGED << pc, fmt, seg, main, blip >>
    /\ UNCHANGED gcode_vars

\* return processed_gcode_lines
WipeReturn ==
    /\ pc = "wipe"
    /\ wipe.status = "loop"
    /\ wipe.n = Len(wipe.gcode_lines)
    /\ wipe' = [wipe EXCEPT !.status = "returned"]
    /\ pc' = "wiped"
    /\ UNCHANGED << fmt, seg, main, blip >>
    /\ UNCHANGED gcode_vars

NextWipe ==
    \/ WipeScan
    \/ WipeReturn

SpecWipe == InitWipe /\ [][NextWipe]_vars

\* ------------------------------------------------------------------------
\* TravelExtrusionMultiplier: a Line is built from a segment
InitSegment ==
    /\ NoGCode
    /\ pc = "segment"
    /\ fmt = NoCall
    /\ wipe = NoCall
    /\ main = NoCall
    /\ blip = NoCall
    /\ seg \in { [cfg |-> cfg, gcode_lines |-> gl, start_point |-> p, enabled |-> b,
                  result |-> NoCall] :
                    cfg \in TravelConfigs, gl \in Segments, p \in SegmentStarts, b \in BOOLEAN }

\* self.lines = self.process_gcode_lines(gcode_lines)
SegmentLines ==
    /\ pc = "segment"
    /\ seg' = [seg EXCEPT !.result = TravelLines(seg.cfg, seg.gcode_lines, seg.start_point,
                                                  seg.enabled)]
    /\ pc' = "segment_done"
    /\ UNCHANGED << fmt, wipe, main, blip >>
    /\ UNCHANGED gcode_vars

NextSegment == SegmentLines

SpecSegment == InitSegment /\ [][NextSegment]_vars

\* ------------------------------------------------------------------------
\* gcode_fmt is called on a value
\* ------------------------------------------------------------------------
\* the value lies exactly half way between two decimals of that precision
\* (no float does)
HalfWay(value, precision) ==
    /\ value.e > precision
    /\ 2 * (Abs(value.n) % Pow10(value.e - precision)) = Pow10(value.e - precision)

InitFmt ==
    /\ NoGCode
    /\ pc = "fmt"
    /\ wipe = NoCall
    /\ seg = NoCall
    /\ main = NoCall
    /\ blip = NoCall
    /\ fmt \in { c \in [value : { Dec(n, e) : n \in (0 - MaxMant)..MaxMant, e \in 0..MaxExp },
                         precision : {3, 5}, text : { NoCall }] :
                     ~HalfWay(c.value, c.precision) }

\* text = gcode_fmt(value, precision)
Format ==
    /\ pc = "fmt"
    /\ fmt' = [fmt EXCEPT !.text = gcode_fmt(fmt.value, fmt.precision)]
    /\ pc' = "formatted"
    /\ UNCHANGED << wipe, seg, main, blip >>
    /\ UNCHANGED gcode_vars

SpecFmt == InitFmt /\ [][Format]_vars

\* ------------------------------------------------------------------------
\* ColorBlip: a Layer is built from its lines and printed
\* ------------------------------------------------------------------------
InitPrint ==
    /\ NoGCode
    /\ pc = "layer"
    /\ fmt = NoCall
    /\ wipe = NoCall
    /\ seg = NoCall
    /\ main = NoCall
    /\ blip \in { [cfg |-> m.cfg, gcode_lines |-> gl,
                   start_point |-> Point(Some(1 * Scale), Some(0), Some(1 * Scale)),
                   enabled |-> m.enabled, layer |-> NoCall, result |-> NoCall] :
                     gl \in BlipLayers, m \in BlipModes }

\* Layer(gcode_lines, config, start_point, start_type, enabled)
BuildLayer ==
    /\ pc = "layer"
    /\ blip' = [blip EXCEPT !.layer = Layer("ColorBlip", blip.cfg, blip.gcode_lines,
                                            blip.start_point, None, blip.enabled)]
    /\ pc' = "layer_built"
    /\ UNCHANGED << fmt, wipe, seg, main >>
    /\ UNCHANGED gcode_vars

\* layer.print
PrintLayer ==
    /\ pc = "layer_built"
    /\ ~blip.layer.err
    /\ blip' = [blip EXCEPT !.result = BlipPrint(blip.cfg, blip.layer)]
    /\ pc' = "printed"
    /\ UNCHANGED << fmt, wipe, seg, main >>
    /\ UNCHANGED gcode_vars

NextPrint ==
    \/ BuildLayer
    \/ PrintLayer

SpecPrint == InitPrint /\ [][NextPrint]_vars

\* ------------------------------------------------------------------------
\* main(): the settings are read, GCode is constructed, the output is stored
\* ------------------------------------------------------------------------
InitMain ==
    /\ NoGCode
    /\ pc = "main"
    /\ fmt = NoCall
    /\ wipe = NoCall
    /\ seg = NoCall
    /\ blip = NoCall
    /\ main \in UNION { { [tool |-> t, gcode_lines |-> gl, step |-> "loaded",
                             config |-> NoCall, raised |-> "no", message |-> "",
                             written |-> FALSE] : gl \in Files(t) } : t \in Tools }

\* GapCloser, TravelExtrusionMultiplier:
\* gcode_config = GCodeConfig(gcode_lines, **config_args)
MainConfig ==
    /\ main.step = "loaded"
    /\ main.tool # "ColorBlip"
    /\ LET cfg == GapConfig(main.gcode_lines)
       IN  main' = IF cfg.raised # "no"
                   THEN [main EXCEPT !.step = "aborted", !.raised = cfg.raised]
                   ELSE [main EXCEPT !.step = "configured", !.config = cfg]
    /\ UNCHANGED << pc, fmt, wipe, seg, blip >>
    /\ UNCHANGED gcode_vars

\* GapCloser, TravelExtrusionMultiplier: gcode = GCode(gcode_lines, gcode_config),
\* followed to the call of process_gcode_lines
MainGCode ==
    /\ main.step = "configured"
    /\ LET r == GapInit(main.config)
       IN  main' = IF r.raised # "no"
                   THEN [main EXCEPT !.step = "aborted", !.raised = r.raised,
                                     !.message = r.message]
                   ELSE [main EXCEPT !.step = "process_gcode_lines"]
    /\ UNCHANGED << pc, fmt, wipe, seg, blip >>
    /\ UNCHANGED gcode_vars

\* ColorBlip: process_gcode calls GCode(gcode_lines), which reads the settings
\* itself; followed to the call of process_gcode_lines
MainBlip ==
    /\ main.step = "loaded"
    /\ main.tool = "ColorBlip"
    /\ LET cfg == BlipConfig(main.gcode_lines)
           r == BlipInit(cfg)
       IN  main' = IF r.raised # "no"
                   THEN [main EXCEPT !.step = "aborted", !.raised = r.raised,
                                     !.message = r.message]
                   ELSE [main EXCEPT !.step = "process_gcode_lines", !.config = cfg]
    /\ UNCHANGED << pc, fmt, wipe, seg, blip >>
    /\ UNCHANGED gcode_vars

\* the constructor returned (the segmentation itself is Spec):
\* gcode.gcode_lines(), get_config_lines, store_gcode_lines
MainStore ==
    /\ main.step = "process_gcode_lines"
    /\ main' = [main EXCEPT !.step = "stored", !.written = TRUE]
    /\ UNCHANGED << pc, fmt, wipe, seg, blip >>
    /\ UNCHANGED gcode_vars

NextMain ==
    \/ MainConfig
    \/ MainGCode
    \/ MainBlip
    \/ MainStore

SpecMain == InitMain /\ [][NextMain]_vars

\* ------------------------------------------------------------------------
\* The scans that track a position: a run of GCode or a run of ColorWipe
\* ------------------------------------------------------------------------
InitScans == Init \/ InitWipe

NextScans == Next \/ NextWipe

SpecScans == InitScans /\ [][NextScans]_vars

\* ------------------------------------------------------------------------
\* Properties
\* ------------------------------------------------------------------------
\* process_gcode_lines has returned
Built == pc \in {"built", "done", "done_rewritten"}

Min(S) == CHOOSE m \in S : \A n \in S : m <= n

\* the position p after every parsed move of gl, in order, each applied once
ApplyMove(p, g1) == IF g1.kind = "G1" THEN updated_with_g1_move(p, g1) ELSE p

RECURSIVE ApplyMoves(_, _)
ApplyMoves(p, gl) ==
    IF gl = << >> THEN p
    ELSE ApplyMoves(ApplyMove(p, parse_line(Head(gl))), Tail(gl))

\* the toggle of tool t after the first n lines of gl
RECURSIVE ToggleAfter(_, _, _)
ToggleAfter(t, gl, n) ==
    IF n = 0 THEN DefaultEnabled(t)
    ELSE IF gl[n] = ENABLED_ID(t) THEN TRUE
    ELSE IF gl[n] = DISABLED_ID(t) THEN FALSE
    ELSE ToggleAfter(t, gl, n - 1)

\* total length of the first m sequences of ss, each taken through field
RECURSIVE TextLen(_, _)
TextLen(ss, m) == IF m = 0 THEN 0 ELSE TextLen(ss, m - 1) + Len(ss[m].gcode_lines)

\* 0-based index in the stream of the first line of layer k
LayerFirstIdx(k) ==
    (IF layer_start_idx = None THEN 0 ELSE pre_end_idx) + TextLen(layers, k - 1)

\* 0-based index in its layer of the first line of Line m
LineFirstIdx(layer, m) == Len(layer.pre_print) + TextLen(layer.lines, m - 1)

\* line j (0-based) of the layer is a travel move at the true running
\* position: the layer's start point updated by the moves before line j
TravelAt(layer, j) ==
    LET g1 == parse_line(layer.gcode_lines[j + 1])
        p  == ApplyMoves(layer.start_point, SubSeq(layer.gcode_lines, 1, j))
    IN  /\ g1.kind = "G1"
        /\ g1.e = None
        /\ ~is_xy_equal(p, updated_with_g1_move(p, g1))

SeqToSet(q) == { q[k] : k \in 1..Len(q) }

M107Lines == { k \in 1..Len(gcode_lines) : startswith(gcode_lines[k], M107) }

\* C1: when no rewrite fires, gcode_lines() returns exactly the input stream:
\* same lines, same order, none dropped, none duplicated.
RoundTrip == pc = "done" => out = Some(gcode_lines)

\* C2: parse_line never raises: it returns a G1 record or None.
ParseLineTotal == presult.kind # "ValueError"

\* the grammar C3 states, from index i on, the letters in seen already used:
\* fields separated by spaces, each a letter of X Y Z E F used at most once
\* followed by an optionally signed numeral with an optional fraction
RECURSIVE StatedFields(_, _, _)
StatedFields(s, i, seen) ==
    LET n == RunEnd(s, i, {" "})
        j == IF n + 1 <= Len(s) /\ s[n + 1] = "-" THEN n + 2 ELSE n + 1
        k == RunEnd(s, j, Digits \cup {"."})
    IN  IF n > Len(s) THEN seen # {}
        ELSE /\ n > i
             /\ s[n] \in FieldLetters \ seen
             /\ \E d \in j..(k - 1) : s[d] \in Digits
             /\ CountDots(SubSeq(s, j, k - 1)) <= 1
             /\ StatedFields(s, k, seen \cup {s[n]})

StatedGrammar(s) == startswith(s, << "G", "1" >>) /\ StatedFields(s, 3, {})

\* C3: parse_line returns a move exactly for the lines of the stated grammar
\* (G1, then space-separated X/Y/Z/E/F fields, each letter at most once, each
\* value optionally signed and/or fractional), and None for every other line.
ParseLineGrammar ==
    pc = "parsed" => ((presult.kind = "G1") <=> StatedGrammar(pline))

\* C4: the enabled flag of a Layer, and of each of its Lines, is the toggle
\* as it stood at the layer's first line: only markers before the layer count.
EnabledSampledAtLayerStart ==
    Built => \A k \in 1..Len(layers) :
        /\ layers[k].enabled = ToggleAfter(tool, gcode_lines, LayerFirstIdx(k))
        /\ \A b \in 1..Len(layers[k].lines) : layers[k].lines[b].enabled = layers[k].enabled

\* C5: the pre-print region is exactly the lines before the first
\* ;LAYER_CHANGE line; without such a line the whole file is pre-print and no
\* line is handed to a Layer.
PrePrintBoundary ==
    Built =>
        LET lc == { k \in 1..Len(gcode_lines) : gcode_lines[k] = LAYER_CHANGE_ID }
            pre == Slice(gcode_lines, 0, pre_end_idx)
        IN  IF lc = {}
            THEN /\ pre = gcode_lines
                 /\ \A k \in 1..Len(layers) : layers[k].gcode_lines = << >>
            ELSE pre = SubSeq(gcode_lines, 1, Min(lc) - 1)

\* C6: the post-print region begins right after the last line that starts
\* with M107 (the second-to-last in ColorBlip); with fewer such lines than
\* that, it is empty and everything after the pre-print boundary is handed
\* to the layers.
PostPrintBoundary ==
    Built =>
        LET need == IF tool = "ColorBlip" THEN 2 ELSE 1
            stop == { k \in M107Lines :
                        Cardinality({ m \in M107Lines : m >= k }) = need }
        IN  IF stop # {}
            THEN post_start_idx = Min(stop)
            ELSE /\ post_start_idx = Len(gcode_lines)
                 /\ Concat([k \in 1..Len(layers) |-> layers[k].gcode_lines])
                        = Slice(gcode_lines, pre_end_idx, Len(gcode_lines))

\* C6 witness: ColorBlip on a stream with two M107 lines and lines after the
\* second-to-last of them
PostPrintBoundaryWitness ==
    /\ Built
    /\ tool = "ColorBlip"
    /\ Cardinality(M107Lines) >= 2
    /\ post_start_idx < Len(gcode_lines)
    /\ post_start_idx = Min(M107Lines)

\* C7: each layer starts at the point (and in ColorBlip the type) the layer
\* before it ended at, and ends at its start point updated in order by every
\* parsed move of the layer, whether or not its first loop found the
\* pre-layer boundary.
StateThreading ==
    Built =>
        /\ \A k \in 1..(Len(layers) - 1) :
              /\ layers[k + 1].start_point = layers[k].end_point
              /\ layers[k + 1].start_type = layers[k].end_type
        /\ \A k \in 1..Len(layers) :
              layers[k].end_point = ApplyMoves(layers[k].start_point, layers[k].gcode_lines)

\* C7 witness: a second layer without pre-layer boundary that starts at a
\* defined point and moves away from it
StateThreadingWitness ==
    /\ Built
    /\ Len(layers) >= 2
    /\ ~layers[2].found
    /\ layers[2].start_point.x # None
    /\ layers[2].end_point # layers[2].start_point

\* C8: in the line split of every layer a line is treated as a travel move
\* exactly when it parses to a move without E whose planar target differs
\* from the true running position.
TravelUsesRunningPosition ==
    Built => \A k \in 1..Len(layers) :
        \A j \in Len(layers[k].pre_print)..(Len(layers[k].gcode_lines) - 1) :
            (j \in SeqToSet(layers[k].travels)) <=> TravelAt(layers[k], j)

\* C9: in GapCloser and ColorBlip the preamble of a layer ends at the first
\* move after ;AFTER_LAYER_CHANGE that has no E and changes the planar
\* position, and at no other line.
PreambleEndsAtFirstTravel ==
    (Built /\ tool # "TravelExtrusionMultiplier") =>
        \A k \in 1..Len(layers) :
            LET gl == layers[k].gcode_lines
                cand == { j \in 0..(Len(gl) - 1) :
                            /\ \E a \in 1..j : gl[a] = AFTER_LAYER_CHANGE_ID
                            /\ TravelAt(layers[k], j) }
            IN  IF cand = {} THEN ~layers[k].found
                ELSE layers[k].found /\ Len(layers[k].pre_print) = Min(cand)

\* C10 as stated: every Line runs up to and including the travel move that
\* terminates it.
LineEndsWithItsTravel ==
    Built => \A k \in 1..Len(layers) :
        \A m \in 1..Len(layers[k].travels) :
            LineFirstIdx(layers[k], m + 1) = layers[k].travels[m] + 1

\* C10 as amended: the line split cuts at every travel move it finds; the
\* travel move is the first text line of the Line it opens, and the Line
\* before it ends with the line just before the travel move.
LineBeginsWithItsTravel ==
    Built => \A k \in 1..Len(layers) :
        /\ Len(layers[k].lines) = Len(layers[k].travels) + 1
        /\ \A m \in 1..Len(layers[k].travels) :
              LET opened == layers[k].lines[m + 1] IN
              /\ LineFirstIdx(layers[k], m + 1) = layers[k].travels[m]
              /\ opened.gcode_lines # << >>
              /\ opened.gcode_lines[1] = layers[k].gcode_lines[layers[k].travels[m] + 1]
              /\ parse_line(opened.gcode_lines[1]).kind = "G1"
              /\ parse_line(opened.gcode_lines[1]).e = None
              /\ ~is_xy_equal(layers[k].lines[m].end_point, opened.start_point)

\* C10 witness: a layer cut at two travel moves with an extrusion between
LineBeginsWithItsTravelWitness ==
    /\ Built
    /\ \E k \in 1..Len(layers) :
          /\ Len(layers[k].travels) >= 2
          /\ Len(layers[k].lines[2].gcode_lines) >= 2

Max(a, b) == IF a >= b THEN a ELSE b

\* the ;LAYER_CHANGE lines the layer loop scans: those in
\* gcode_lines[pre_end_idx:post_start_idx]
LayerChangesInPrint ==
    { k \in (pre_end_idx + 1)..post_start_idx : gcode_lines[k] = LAYER_CHANGE_ID }

\* C11: there are max(1, number of ;LAYER_CHANGE lines in the print region)
\* Layers, and every Layer has 1 + (travel moves its line split found) Lines,
\* so at least one; the last Line of a layer holds the layer's text from the
\* last cut to its end.
NodeCounts ==
    Built =>
        /\ Len(layers) = Max(1, Cardinality(LayerChangesInPrint))
        /\ \A k \in 1..Len(layers) :
              /\ Len(layers[k].lines) = 1 + Len(layers[k].travels)
              /\ Len(layers[k].lines) >= 1
              /\ LineFirstIdx(layers[k], Len(layers[k].lines) + 1) = Len(layers[k].gcode_lines)

\* C11 witness: two layers, one of them cut at a travel move into a Line
\* without text and a Line with text
NodeCountsWitness ==
    /\ Built
    /\ Len(layers) >= 2
    /\ \E k \in 1..Len(layers) :
          /\ Len(layers[k].lines) >= 2
          /\ layers[k].lines[1].gcode_lines = << >>
          /\ layers[k].lines[2].gcode_lines # << >>

\* process_gcode stands between two passes of its loop, or has returned
WipeBetweenPasses == pc \in {"wipe", "wiped"} /\ wipe.status \in {"loop", "returned"}

\* the pass over input line k put the wipe and hop lines around its copy
Hopped(k) ==
    /\ wipe.copies[k] >= 4
    /\ wipe.copies[k] + 2 <= Len(wipe.processed_gcode_lines)
    /\ wipe.processed_gcode_lines[wipe.copies[k] - 3] = WIPE_START
    /\ wipe.processed_gcode_lines[wipe.copies[k] - 1] = WIPE_END

HopsBefore(k) == Cardinality({ j \in 1..(k - 1) : Hopped(j) })

\* C12 as stated: after every pass the cursor i (before or after its final
\* increment) is the index in the output of the copy of the line just scanned.
CursorAtCopy ==
    (WipeBetweenPasses /\ wipe.n > 0) =>
        (wipe.i = wipe.copies[wipe.n] \/ wipe.i - 1 = wipe.copies[wipe.n])

\* C12 as amended: between passes the cursor i is the length of the output,
\* that is the index the copy of the next line is put at (after a pass that
\* inserted lines, i - 1 is the index of the last inserted line, which follows
\* the copy); every scanned line has one copy in the output, in input order,
\* blanked only if it is a G1 line with a Z field; the inserted lines stand in
\* groups of five around the copy of the line that caused them; z_change_idx,
\* when set, is the index of a G1 line of the output that carries a Z field.
CursorAtOutputEnd ==
    WipeBetweenPasses =>
        /\ wipe.i = Len(wipe.processed_gcode_lines)
        /\ Len(wipe.copies) = wipe.n
        /\ Len(wipe.processed_gcode_lines) = wipe.n + 5 * HopsBefore(wipe.n + 1)
        /\ \A k \in 1..wipe.n :
              /\ wipe.copies[k] = (k - 1) + 5 * HopsBefore(k) + (IF Hopped(k) THEN 4 ELSE 0)
              /\ \/ wipe.processed_gcode_lines[wipe.copies[k] + 1] = wipe.gcode_lines[k]
                 \/ /\ wipe.processed_gcode_lines[wipe.copies[k] + 1] = << >>
                    /\ parse_line(wipe.gcode_lines[k]).kind = "G1"
                    /\ parse_line(wipe.gcode_lines[k]).z # None
        /\ wipe.z_change_idx # None =>
              /\ wipe.z_change_idx[1] < Len(wipe.processed_gcode_lines)
              /\ parse_line(wipe.processed_gcode_lines[wipe.z_change_idx[1] + 1]).kind = "G1"
              /\ parse_line(wipe.processed_gcode_lines[wipe.z_change_idx[1] + 1]).z # None

\* C12 witness: the scan went on after a pass that inserted lines and took
\* the cursor as z_change_idx
CursorAtOutputEndWitness ==
    /\ WipeBetweenPasses
    /\ \E k \in 1..(wipe.n - 1) : Hopped(k)
    /\ wipe.z_change_idx # None
    /\ wipe.z_change_idx[1] > wipe.n

\* every axis defined in p is defined in q
KeepsAxes(p, q) ==
    /\ p.x # None => q.x # None
    /\ p.y # None => q.y # None
    /\ p.z # None => q.z # None

\* the values the tracked position of a Layer's scans had, in order: at the
\* start of the layer, at each cut of its line split (the end point of the
\* Line cut off, then the start point of the Line opened), at the end
LayerPoints(layer) ==
    << layer.start_point >>
        \o [k \in 1..(2 * Len(layer.lines) - 1) |->
               IF k % 2 = 1 THEN layer.lines[(k + 1) \div 2].end_point
                            ELSE layer.lines[k \div 2 + 1].start_point]
        \o << layer.end_point >>

\* the positions of the segment tree in scan order, then the running position
TreePoints(ls, last) ==
    Concat([k \in 1..Len(ls) |-> LayerPoints(ls[k])]) \o << last >>

Monotone(points) ==
    \A k \in 1..(Len(points) - 1) : KeepsAxes(points[k], points[k + 1])

\* C13: in every scan an axis of the tracked position that has a value keeps
\* having one: along the pre-print scan, the layer scans and the line splits
\* of GCode, and from pass to pass of ColorWipe except on a pass over a
\* CUSTOM_HOP_DISABLED line, which resets the tracker.
PositionMonotone ==
    [][ /\ pc \in {"pre_print", "post_print", "layers", "last_layer"} =>
              /\ KeepsAxes(current_point, current_point')
              /\ pc' # "ValueError" => Monotone(TreePoints(layers', current_point'))
        /\ (pc = "wipe" /\ wipe'.status = "loop" /\ wipe'.n > wipe.n) =>
              IF wipe.gcode_lines[wipe'.n] = CUSTOM_HOP_DISABLED
              THEN wipe'.current_point = undefined /\ wipe'.prev_xy_point = undefined
              ELSE /\ KeepsAxes(wipe.current_point, wipe'.current_point)
                   /\ KeepsAxes(wipe.prev_xy_point, wipe'.prev_xy_point) ]_vars

\* C13 witness: ColorWipe has just reset a position that had all its axes
PositionMonotoneWitness ==
    /\ pc = "wipe"
    /\ wipe.n >= 3
    /\ wipe.gcode_lines[wipe.n - 2] = CUSTOM_HOP_ENABLED
    /\ wipe.gcode_lines[wipe.n - 1] = << "G", "1", " ", "X", "0", " ", "Y", "0", " ", "Z", "1" >>
    /\ wipe.gcode_lines[wipe.n] = CUSTOM_HOP_DISABLED
    /\ wipe.current_point = undefined

\* C14: a move that crosses the remaining distance is replaced by two lines;
\* parse_line reads both back as moves, the first to the waypoint at that
\* distance, the second to the original target, and their E amounts add up
\* to the E of the original move (to the resolution of the model).
SplitReparses ==
    (pc = "segment_done" /\ seg.result.raised = "no") =>
        \A k \in 1..Len(seg.result.splits) :
            LET s == seg.result.splits[k]
                first == parse_line(seg.result.lines[s.at + 1])
                second == parse_line(seg.result.lines[s.at + 2])
            IN  /\ first.kind = "G1"
                /\ second.kind = "G1"
                /\ first.e # None
                /\ second.e # None
                /\ is_xy_equal(updated_with_g1_move(s.from, second), s.to)
                /\ SquareDist(s.from, updated_with_g1_move(s.from, first)) = s.remaining * s.remaining
                /\ Abs(first.e[1] + second.e[1] - s.e) <= 1

\* the settings a tool reads, each as the prefixes get_value_for_id is given
SettingsRead(t) ==
    IF t = "ColorBlip"
    THEN { << Id.TRAVEL_SPEED_ID >>, << Id.TRAVEL_SPEED_Z_ID >>, << Id.NOZZLE_DIAMETER_ID >>,
           << Id.FILAMENT_RETRACT_BEFORE_TRAVEL_ID, Id.RETRACT_BEFORE_TRAVEL_ID >>,
           << Id.FILAMENT_RETRACT_LENGTH_ID, Id.RETRACT_LENGTH_ID >>,
           << Id.FILAMENT_RETRACT_SPEED_ID, Id.RETRACT_SPEED_ID >>,
           << Id.FILAMENT_RETRACT_LAYER_CHANGE, Id.RETRACT_LAYER_CHANGE >>,
           << Id.FILAMENT_WIPE_ID, Id.WIPE_ID >>, << Id.FILAMENT_Z_HOP_ID, Id.Z_HOP_ID >> }
    ELSE { << Id.FILAMENT_RETRACT_LENGTH_ID, Id.RETRACT_LENGTH_ID >>,
           << Id.FILAMENT_DERETRACT_SPEED_ID, Id.DERETRACT_SPEED_ID >>,
           << Id.ARC_FITTING >> }

\* a setting the tool reads is not found in the input
SettingMissing ==
    \E id \in SettingsRead(main.tool) :
        get_value_for_id(id, main.gcode_lines, main.tool = "ColorBlip") = None

\* C15: when a setting the tool reads is missing from the configuration
\* comments, the run gets no further than reading the settings: it aborts,
\* no GCode is built on a defaulted setting and no output is written.
MissingKeyAborts ==
    (pc = "main" /\ SettingMissing) =>
        /\ main.step \in { "loaded", "aborted" }
        /\ ~main.written

\* the settings are all read and enable a feature the tool does not support
UnsupportedFeature ==
    IF main.tool = "ColorBlip"
    THEN LET cfg == BlipConfig(main.gcode_lines)
         IN  cfg.raised = "no" /\ (cfg.wipe \/ cfg.z_hop > 0)
    ELSE LET cfg == GapConfig(main.gcode_lines)
         IN  cfg.raised = "no" /\ cfg.arc_fitting

\* the message that names the unsupported feature
FeatureMessages ==
    IF main.tool = "ColorBlip"
    THEN { "ColorBlip does not currently support 'Wipe while retracting'.",
           "ColorBlip does not currently support 'Lift Height' (aka Z-Hop)." }
    ELSE { "Arc Fitting is not supported." }

DigitsIn(text) == SelectSeq(text, LAMBDA c : c \in Digits)

\* the number of digits after the point
DecimalsIn(text) ==
    LET dots == { k \in 1..Len(text) : text[k] = "." }
    IN  IF dots = {} THEN 0 ELSE Len(DigitsIn(SubSeq(text, (CHOOSE k \in dots : TRUE) + 1, Len(text))))

\* C16: gcode_fmt returns '0.000' for zero; for every value the text holds
\* at least one digit, is read as a move's field by parse_line and denotes
\* the value rounded to the precision, with its sign.
FmtIsNumeral ==
    pc = "formatted" =>
        LET magnitude == Rounded(fmt.value, fmt.precision)
            move == parse_line(<< "G", "1", " ", "E" >> \o fmt.text)
        IN  /\ fmt.value.n = 0 => fmt.text = << "0", ".", "0", "0", "0" >>
            /\ DigitsIn(fmt.text) # << >>
            /\ move.kind = "G1"
            /\ IntPart(DigitsIn(fmt.text)) * Pow10(fmt.precision)
                   = magnitude * Pow10(DecimalsIn(fmt.text))
            /\ (fmt.text[1] = "-") = (fmt.value.n < 0)

\* the line is a move with E and F fields only, E the configured retract
\* length and F the configured deretraction speed
PureDeretraction(cfg, line) ==
    LET g1 == parse_line(line)
    IN  /\ g1.kind = "G1"
        /\ g1.x = None /\ g1.y = None /\ g1.z = None
        /\ g1.e = Some(cfg.retract_len)
        /\ g1.f = Some(cfg.deretract_speed)

\* the segment is enabled and one of its first 5 lines is such a move
GateOpen ==
    /\ seg.enabled
    /\ \E k \in 1..Min({5, Len(seg.gcode_lines)}) : PureDeretraction(seg.cfg, seg.gcode_lines[k])

\* C19: Line.process_gcode_lines returns the lines of the segment as they
\* are unless the segment is enabled and one of its first 5 lines is a move
\* with E and F only whose E is the retract length and whose F is the
\* deretraction speed, both exactly.
GateClosedKeepsLines ==
    (pc = "segment_done" /\ ~GateOpen) =>
        /\ seg.result.raised = "no"
        /\ seg.result.lines = seg.gcode_lines

\* an enabled segment starting at a defined point, with an extrusion to
\* rewrite, E+F moves of another speed and another length among the first
\* 5 lines and the deretraction on line 6
GateClosedKeepsLinesWitness ==
    /\ pc = "segment_done"
    /\ seg.enabled
    /\ seg.start_point # undefined
    /\ Len(seg.gcode_lines) = 6
    /\ PureDeretraction(seg.cfg, seg.gcode_lines[6])
    /\ seg.gcode_lines[1] = << "G", "1", " ", "E", "1", " ", "F", "6" >>
    /\ seg.gcode_lines[2] = << "G", "1", " ", "E", "1", ".", "0", "0", "1", " ", "F", "6", "0" >>
    /\ seg.gcode_lines[3] = << "G", "1", " ", "X", "2", " ", "Y", "0", " ", "E", "1" >>
    /\ ~GateOpen
    /\ seg.result.lines = seg.gcode_lines


\* ------------------------------------------------------------------------
\* ColorBlip: the segments Layer.print removes
\* ------------------------------------------------------------------------
\* the planar length of the path of Line k of the layer built, over the
\* lines the Line holds
SegmentPath(k) ==
    path_length(blip.layer.lines[k].start_point,
                BlipLines(blip.layer.lines[k].gcode_lines, blip.layer.lines[k].enabled), 0)

\* C17: in an enabled layer that was printed, every Line whose path is
\* shorter in the plane than the nozzle diameter is left out of the lines
\* printed.
ShortSegmentsRemoved ==
    (pc = "printed" /\ blip.enabled /\ blip.result.raised = "no") =>
        \A k \in 1..Len(blip.layer.lines) :
            (SegmentPath(k).raised = "no" /\ SegmentPath(k).v < blip.cfg.nozzle_diameter)
                => ~(\E j \in 1..Len(blip.result.valid) : blip.result.valid[j] = k)


\* ------------------------------------------------------------------------
\* ColorBlip: retractions between the segments printed
\* ------------------------------------------------------------------------
\* the point reached from point by the moves of lines
RECURSIVE PointAfter(_, _)
PointAfter(point, lines) ==
    IF lines = << >> THEN point
    ELSE LET Moved(g1) ==
                 IF g1.kind # "G1" THEN PointAfter(point, Tail(lines))
                 ELSE PointAfter(updated_with_g1_move(point, g1), Tail(lines))
         IN  Moved(parse_line(Head(lines)))

\* line k of lines, read from start_point on, is a move with an E field
\* that leaves the planar position where it is: a retraction when sign is
\* -1, a deretraction when sign is 1
StillMove(start_point, lines, k, sign) ==
    LET g1 == parse_line(lines[k])
        at == PointAfter(start_point, SubSeq(lines, 1, k - 1))
    IN  /\ g1.kind = "G1"
        /\ g1.e # None
        /\ g1.e[1] * sign > 0
        /\ is_xy_equal(at, updated_with_g1_move(at, g1))

\* the planar gap from the j-th segment printed to the next one
PrintedGap(j) ==
    xy_dist(blip.layer.lines[blip.result.valid[j]].end_point,
            blip.layer.lines[blip.result.valid[j + 1]].start_point)

\* the j-th segment printed ends with a retraction and a travel-speed line,
\* and the next one has a deretraction after its first line
Retracted(j) ==
    LET first == blip.result.segs[j]
        second == blip.result.segs[j + 1]
        n == Len(first)
    IN  /\ n >= 2
        /\ first[n - 1] = << "G", "1", " ", "E", "-" >> \o gcode_fmt(OfScale(blip.cfg.retract_len), 3)
                              \o << " ", "F" >> \o DigitsOf(blip.cfg.retract_speed)
        /\ first[n] = << "G", "1", " ", "F" >> \o DigitsOf(blip.cfg.travel_speed)
        /\ Len(second) >= 2
        /\ second[2] = << "G", "1", " ", "E" >> \o gcode_fmt(OfScale(blip.cfg.retract_len), 3)
                           \o << " ", "F" >> \o DigitsOf(blip.cfg.retract_speed)

\* the j-th segment printed ends with a retraction and the next one begins,
\* after its first line, with a deretraction
PairBetween(j) ==
    LET first == blip.result.segs[j]
        second == blip.result.segs[j + 1]
    IN  /\ first # << >>
        /\ StillMove(blip.layer.lines[blip.result.valid[j]].start_point, first, Len(first), 0 - 1)
        /\ Len(second) >= 2
        /\ StillMove(blip.layer.lines[blip.result.valid[j + 1]].start_point, second, 2, 1)

\* C18: in an enabled layer that was printed, two consecutive segments
\* printed carry a retraction with its travel-speed line and a deretraction
\* between them exactly when the planar gap between them exceeds the wipe
\* threshold, and when it does not, no retraction at the end of the first
\* with a deretraction at the start of the second (moves with an E field
\* and no planar movement) is left between them.
RetractionRule ==
    (pc = "printed" /\ blip.enabled /\ blip.result.raised = "no") =>
        \A j \in 1..(Len(blip.result.valid) - 1) :
            /\ (PrintedGap(j) > blip.cfg.wipe_threshold) <=> Retracted(j)
            /\ (PrintedGap(j) <= blip.cfg.wipe_threshold) => ~PairBetween(j)

\* the first half of the retraction rule alone
RetractionIffFar ==
    (pc = "printed" /\ blip.enabled /\ blip.result.raised = "no") =>
        \A j \in 1..(Len(blip.result.valid) - 1) :
            (PrintedGap(j) > blip.cfg.wipe_threshold) <=> Retracted(j)

\* two segments are printed with a gap above the threshold between them
FarPairPrinted ==
    /\ pc = "printed" /\ blip.enabled /\ blip.result.raised = "no"
    /\ \E j \in 1..(Len(blip.result.valid) - 1) : PrintedGap(j) > blip.cfg.wipe_threshold


\* ------------------------------------------------------------------------
\* ColorBlip: main() with the option --wipe-threshold
\* ------------------------------------------------------------------------
\* str() of a float v >= 0 (1/Scale units), as the f-string of
\* get_config_lines renders it: 2.0 is "2.0", 0.5 is "0.5"
str_float(v) ==
    LET Shortest(frac) == IF frac = << >> THEN << "0" >> ELSE frac
    IN  DigitsOf(v \div Scale) \o << "." >> \o Shortest(StripRight(PadDigits(v % Scale, 3)))

\* process_gcode(gcode_lines, wipe_threshold): GCode(gcode_lines), followed
\* to the settings GCode holds; the second argument is not used
process_gcode(gl, wipe_threshold) ==
    LET Made(cfg, r) == [raised |-> r.raised, message |-> r.message, config |-> cfg]
        Read(cfg) == Made(cfg, BlipInit(cfg))
    IN  Read(BlipConfig(gl))

\* get_config_lines(args, gcode_lines)
get_config_lines(args, gl) ==
    LET Lines(text) ==
            << << ";", " ", "P", "o", "s", "t", "-", "P", "r", "o", "c", "e", "s", "s", "e", "d", " ",
                  "W", "i", "t", "h", " ", "B", "l", "i", "p", "R", "e", "m", "o", "v", "e", "r" >>,
               << ";", " ", "w", "i", "p", "e", "_", "t", "h", "r", "e", "s", "h", "o", "l", "d", " ",
                  "=", " " >> \o text,
               << >> >>
        Setting_(value) ==
            IF value = None THEN [raised |-> "AttributeError", lines |-> << >>]
            ELSE [raised |-> "no", lines |-> Lines(FirstField(value[1]))]
    IN  IF args.wipe_threshold # None /\ args.wipe_threshold[1] # 0
        THEN [raised |-> "no", lines |-> Lines(str_float(args.wipe_threshold[1]))]
        ELSE Setting_(get_value_for_id(<< Id.FILAMENT_RETRACT_BEFORE_TRAVEL_ID,
                                          Id.RETRACT_BEFORE_TRAVEL_ID >>, gl, TRUE))

\* the input files of these runs: a file of configuration comments that
\* GCode accepts, followed by at most one more retract_before_travel and at
\* most one filament_retract_before_travel
OptionFiles ==
    LET Travels ==
            { Id.RETRACT_BEFORE_TRAVEL_ID \o << "=", " ", "2" >>,
              Id.RETRACT_BEFORE_TRAVEL_ID \o << "=", " ", "0", ".", "5" >> }
        FilamentTravels ==
            { Id.FILAMENT_RETRACT_BEFORE_TRAVEL_ID \o << "=", " ", "n", "i", "l" >>,
              Id.FILAMENT_RETRACT_BEFORE_TRAVEL_ID \o << "=", " ", "3" >> }
    IN  { gl \o r \o f :
            gl \in { g \in Files("ColorBlip") : BlipInit(BlipConfig(g)).raised = "no" },
            r \in Optional(Travels), f \in Optional(FilamentTravels) }

\* what --wipe-threshold is given (type=float): nothing, 0, 0.5, 1, 2 or 3
OptionValues ==
    { None, Some(0), Some(5 * (Scale \div 10)), Some(1 * Scale), Some(2 * Scale), Some(3 * Scale) }

InitOption ==
    /\ NoGCode
    /\ pc = "option"
    /\ fmt = NoCall
    /\ wipe = NoCall
    /\ seg = NoCall
    /\ blip = NoCall
    /\ main \in { [tool |-> "ColorBlip", gcode_lines |-> gl, args |-> [wipe_threshold |-> w],
                   step |-> "loaded", config |-> NoCall, raised |-> "no", message |-> "",
                   written |-> FALSE] : gl \in OptionFiles, w \in OptionValues }

\* gcode_lines = process_gcode(gcode_lines, args.wipe_threshold); a file of
\* comments comes back as it is
OptionProcess ==
    /\ pc = "option"
    /\ main.step = "loaded"
    /\ LET r == process_gcode(main.gcode_lines, main.args.wipe_threshold)
       IN  main' = IF r.raised # "no"
                   THEN [main EXCEPT !.step = "aborted", !.raised = r.raised,
                                     !.message = r.message]
                   ELSE [main EXCEPT !.step = "process_gcode", !.config = r.config]
    /\ UNCHANGED << pc, fmt, wipe, seg, blip >>
    /\ UNCHANGED gcode_vars

\* gcode_lines += get_config_lines(args, gcode_lines); store_gcode_lines
OptionStore ==
    /\ pc = "option"
    /\ main.step = "process_gcode"
    /\ LET r == get_config_lines(main.args, main.gcode_lines)
       IN  main' = IF r.raised # "no"
                   THEN [main EXCEPT !.step = "aborted", !.raised = r.raised]
                   ELSE [main EXCEPT !.step = "stored", !.written = TRUE,
                                     !.gcode_lines = @ \o r.lines]
    /\ UNCHANGED << pc, fmt, wipe, seg, blip >>
    /\ UNCHANGED gcode_vars

NextOption ==
    \/ OptionProcess
    \/ OptionStore

SpecOption == InitOption /\ [][NextOption]_vars

\* the value the trailing '; wipe_threshold = ...' comment of a stored file
\* reports
ReportedThreshold ==
    float(strip(LastField(main.gcode_lines[Len(main.gcode_lines) - 1])))

\* C21: in a stored ColorBlip run that was given --wipe-threshold, the
\* threshold the layers compare the travel gap with is the value given, and
\* the trailing comment reports that value.
OptionIsThreshold ==
    (pc = "option" /\ main.step = "stored" /\ main.args.wipe_threshold # None) =>
        /\ main.config.wipe_threshold = main.args.wipe_threshold[1]
        /\ ReportedThreshold.ok
        /\ ReportedThreshold.v = main.args.wipe_threshold[1]


\* ------------------------------------------------------------------------
\* TravelExtrusionMultiplier: the distance the multiplier is applied over
\* ------------------------------------------------------------------------
\* the position before line k of the segment
SegmentPointAt(k) == PointAfter(seg.start_point, SubSeq(seg.gcode_lines, 1, k - 1))

\* line k of the segment is an extrusion move that changes the planar
\* position
ExtrusionAt(k) ==
    LET g1 == parse_line(seg.gcode_lines[k])
    IN  /\ g1.kind = "G1"
        /\ g1.e # None
        /\ g1.e[1] > 0
        /\ ~is_xy_equal(SegmentPointAt(k), updated_with_g1_move(SegmentPointAt(k), g1))

\* the planar length of line k
DistAt(k) ==
    xy_dist(SegmentPointAt(k),
            updated_with_g1_move(SegmentPointAt(k), parse_line(seg.gcode_lines[k])))

\* the planar extrusion of the lines before line k
RECURSIVE UsedBefore(_)
UsedBefore(k) ==
    IF k = 1 THEN 0
    ELSE UsedBefore(k - 1) + (IF ExtrusionAt(k - 1) THEN DistAt(k - 1) ELSE 0)

\* line k lies wholly inside the distance, crosses its end, or neither
WhollyInside(k) ==
    ExtrusionAt(k) /\ UsedBefore(k) + DistAt(k) <= seg.cfg.travel_multiplier_distance

Crossing(k) ==
    /\ ExtrusionAt(k)
    /\ UsedBefore(k) < seg.cfg.travel_multiplier_distance
    /\ UsedBefore(k) + DistAt(k) > seg.cfg.travel_multiplier_distance

\* where line k of the segment stands in the lines returned: every move
\* split before it adds a line
EmittedAt(k) == k + Cardinality({ j \in 1..(k - 1) : Crossing(j) })

\* an emitted line up to its comment, read as a move
EmittedMove(line) ==
    LET semi == { j \in 1..Len(line) : line[j] = ";" }
        cut == IF semi = {} THEN Len(line) ELSE (CHOOSE j \in semi : \A i \in semi : j <= i) - 2
    IN  parse_line(SubSeq(line, 1, cut))

\* the line is a move to point p with the extrusion e (1/Scale units), up to
\* the last digit written
MoveTo(line, p, e) ==
    LET g1 == EmittedMove(line)
    IN  /\ g1.kind = "G1"
        /\ g1.x = p.x /\ g1.y = p.y
        /\ g1.e # None
        /\ Abs(g1.e[1] - e) <= 1

\* the point at distance d from p towards q, d below their distance
PointBetween(p, q, d) ==
    Point(Some(p.x[1] + RoundDiv((q.x[1] - p.x[1]) * d, xy_dist(p, q))),
          Some(p.y[1] + RoundDiv((q.y[1] - p.y[1]) * d, xy_dist(p, q))), p.z)

\* an enabled segment with the deretraction signature was rewritten
BudgetApplied ==
    /\ pc = "segment_done"
    /\ GateOpen
    /\ seg.result.raised = "no"

\* C22: in an enabled segment with the deretraction signature, the moves
\* lying wholly inside the first travel_multiplier_distance mm of planar
\* extrusion have E multiplied, the move crossing the end of that distance
\* is split at the waypoint with only its first part multiplied, at most
\* one move is split, and every other line is returned as it is.
MultiplierBudget ==
    BudgetApplied =>
        /\ Cardinality({ k \in 1..Len(seg.gcode_lines) : Crossing(k) }) <= 1
        /\ Len(seg.result.lines) = EmittedAt(Len(seg.gcode_lines) + 1) - 1
        /\ \A k \in 1..Len(seg.gcode_lines) :
              LET g1 == parse_line(seg.gcode_lines[k])
                  from == SegmentPointAt(k)
                  to == updated_with_g1_move(from, g1)
                  left == seg.cfg.travel_multiplier_distance - UsedBefore(k)
              IN  IF WhollyInside(k)
                  THEN MoveTo(seg.result.lines[EmittedAt(k)], to,
                              RoundDiv(g1.e[1] * seg.cfg.travel_extrusion_multiplier, Scale))
                  ELSE IF Crossing(k)
                  THEN /\ MoveTo(seg.result.lines[EmittedAt(k)], PointBetween(from, to, left),
                                 RoundDiv(g1.e[1] * left * seg.cfg.travel_extrusion_multiplier,
                                          DistAt(k) * Scale))
                       /\ MoveTo(seg.result.lines[EmittedAt(k) + 1], to,
                                 RoundDiv(g1.e[1] * (DistAt(k) - left), DistAt(k)))
                  ELSE seg.result.lines[EmittedAt(k)] = seg.gcode_lines[k]

\* a segment with a move inside the distance, a move crossing its end and
\* an extrusion after it
MultiplierBudgetWitness ==
    /\ BudgetApplied
    /\ \E i, j, k \in 1..Len(seg.gcode_lines) :
          /\ i < j /\ j < k
          /\ WhollyInside(i)
          /\ Crossing(j)
          /\ ExtrusionAt(k)


\* ------------------------------------------------------------------------
\* ColorWipe: the Z move removed, the wipe point
\* ------------------------------------------------------------------------
\* input line k is an extrusion move
WipeExtrusion(k) ==
    LET g1 == parse_line(wipe.gcode_lines[k])
    IN  g1.kind = "G1" /\ g1.e # None /\ g1.e[1] > 0

\* the copy of input line k was blanked
WipeBlanked(k) == wipe.processed_gcode_lines[wipe.copies[k] + 1] = << >>

\* C23: between the passes of process_gcode, no extrusion move was scanned
\* between a Z-change line that was blanked and the travel that blanked it,
\* and every extrusion move runs in the output at the height it has in the
\* input.
ZRemovalSafe ==
    WipeBetweenPasses =>
        \A j \in 1..wipe.n :
            WipeExtrusion(j) =>
                /\ \A k \in 1..(j - 1) :
                      WipeBlanked(k) => \E t \in (k + 1)..(j - 1) : Hopped(t)
                /\ PointAfter(undefined, SubSeq(wipe.gcode_lines, 1, j)).z
                       = PointAfter(undefined,
                                    SubSeq(wipe.processed_gcode_lines, 1, wipe.copies[j] + 1)).z

\* C24: no pass of process_gcode ends in wipe_point failing on an undefined
\* coordinate or on a distance of zero.
WipePointComputable ==
    pc \in {"wipe", "wiped"} => wipe.status \notin {"TypeError", "ZeroDivisionError"}

\* wipe_point never divides by a distance of zero
WipeDistanceNonZero ==
    pc \in {"wipe", "wiped"} => wipe.status # "ZeroDivisionError"


\* ------------------------------------------------------------------------
\* ColorReorder: the print components of a layer are put in order
\* ------------------------------------------------------------------------
\* longest plan of a ColorReorder input file
MaxPlan == 5

\* the text constants of litho_reorder.py
ReorderId ==
    [LITHO_REORDER_ENABLED    |-> << ";", " ", "L", "I", "T", "H", "O", "_", "R", "E", "O", "R", "D", "E", "R", "_", "E", "N", "A", "B", "L", "E", "D" >>,
     LITHO_REORDER_DISABLED   |-> << ";", " ", "L", "I", "T", "H", "O", "_", "R", "E", "O", "R", "D", "E", "R", "_", "D", "I", "S", "A", "B", "L", "E", "D" >>,
     PROGRESS_ID              |-> << "M", "7", "3", " ", "P" >>,
     MANUAL_COLOR_CHANGE_ID   |-> << "M", "6", "0", "0", " ", ";", " " >>,
     START_PRINTING_OBJECT_ID |-> << ";", " ", "p", "r", "i", "n", "t", "i", "n", "g", " ", "o", "b", "j", "e", "c", "t" >>,
     STOP_PRINTING_OBJECT_ID  |-> << ";", " ", "s", "t", "o", "p", " ", "p", "r", "i", "n", "t", "i", "n", "g", " ", "o", "b", "j", "e", "c", "t" >>]

\* toolhead_change_line.match(line): None, or int(group(1))
toolhead_change(line) ==
    IF Len(line) >= 2 /\ line[1] = "T" /\ \A k \in 2..Len(line) : line[k] \in Digits
    THEN Some(IntPart(Tail(line)))
    ELSE None

\* str(toolhead) in an f-string: the digits, or None
toolhead_text(toolhead) == IF toolhead = None THEN << "N", "o", "n", "e" >> ELSE DigitsOf(toolhead[1])

PrintComponent(start_idx, end_idx, layer, toolhead) ==
    [start_idx |-> start_idx, end_idx |-> end_idx, layer |-> layer, toolhead |-> toolhead,
     extrusion_length |-> None]

\* print_components after new_component is registered in layer current_layer
ComponentAdded(print_components, new_component, current_layer) ==
    LET last == print_components[Len(print_components)]
    IN  IF Len(last) > 0 /\ last[Len(last)].layer # current_layer
        THEN Append(print_components, << new_component >>)
        ELSE [print_components EXCEPT ![Len(print_components)] = Append(@, new_component)]

\* the body of the loop of get_print_components on line i (0-based), after
\* the test for LAYER_CHANGE_ID
ComponentLine(st, line, i) ==
    IF line = ReorderId.LITHO_REORDER_ENABLED THEN [st EXCEPT !.litho_reorder_enabled = TRUE]
    ELSE IF line = ReorderId.LITHO_REORDER_DISABLED THEN [st EXCEPT !.litho_reorder_enabled = FALSE]
    ELSE IF toolhead_change(line) # None
    THEN [st EXCEPT !.current_toolhead = toolhead_change(line)]
    ELSE IF ~st.litho_reorder_enabled THEN st
    ELSE IF startswith(line, ReorderId.START_PRINTING_OBJECT_ID)
    THEN [st EXCEPT !.start_print_component_i = Some(i)]
    ELSE IF startswith(line, ReorderId.STOP_PRINTING_OBJECT_ID)
    THEN [st EXCEPT !.print_components =
                        ComponentAdded(@, PrintComponent(st.start_print_component_i, i + 1,
                                                         st.current_layer, st.current_toolhead),
                                       st.current_layer),
                    !.start_print_component_i = None]
    ELSE st

\* the loop of get_print_components from line i (0-based) on
RECURSIVE ComponentScan(_, _, _)
ComponentScan(gl, i, st) ==
    IF i >= Len(gl) THEN st
    ELSE ComponentScan(gl, i + 1,
                       ComponentLine(IF gl[i + 1] = LAYER_CHANGE_ID
                                     THEN [st EXCEPT !.current_layer = @ + 1] ELSE st,
                                     gl[i + 1], i))

get_print_components(gl) ==
    ComponentScan(gl, 0, [print_components |-> << << >> >>, litho_reorder_enabled |-> FALSE,
                          current_layer |-> 0 - 1, current_toolhead |-> None,
                          start_print_component_i |-> None]).print_components

\* the loop of get_extrusion_length from line i (0-based) on
RECURSIVE ExtrusionScan(_, _, _, _, _)
ExtrusionScan(gl, i, end, point, extrusion_length) ==
    IF i >= end THEN extrusion_length
    ELSE LET Moved(g1, new_point) ==
                 ExtrusionScan(gl, i + 1, end, new_point,
                               IF /\ is_fully_defined(point)
                                  /\ g1.e # None /\ g1.e[1] > 0
                                  /\ (g1.x # None \/ g1.y # None \/ g1.z # None)
                               THEN extrusion_length + xy_dist(point, new_point)
                               ELSE extrusion_length)
             Parsed(g1) ==
                 IF g1.kind # "G1" THEN ExtrusionScan(gl, i + 1, end, point, extrusion_length)
                 ELSE Moved(g1, updated_with_g1_move(point, g1))
         IN  Parsed(parse_line(gl[i + 1]))

\* get_extrusion_length(gcode_lines, start, end); range(None, end) raises
\* TypeError
get_extrusion_length(gl, start, end) ==
    IF start = None THEN [raised |-> "TypeError", v |-> 0]
    ELSE [raised |-> "no", v |-> ExtrusionScan(gl, start[1], end, Point(None, None, Some(0)), 0)]

\* sorted(layer, key=lambda x: x.extrusion_length): components of the same
\* length keep their order
RECURSIVE sorted(_)
sorted(layer) ==
    IF layer = << >> THEN << >>
    ELSE LET Placed(before, c) ==
                 SelectSeq(before, LAMBDA x : x.extrusion_length[1] <= c.extrusion_length[1])
                     \o << c >>
                     \o SelectSeq(before, LAMBDA x : x.extrusion_length[1] > c.extrusion_length[1])
         IN  Placed(sorted(SubSeq(layer, 1, Len(layer) - 1)), layer[Len(layer)])

\* non_object_lines after the loop that looks, from the last line back, for
\* a toolhead change and writes the toolhead of the component put here
Retooled(non_object_lines, toolhead) ==
    LET changes == { k \in 1..Len(non_object_lines) : toolhead_change(non_object_lines[k]) # None }
        At(k) ==
            IF k > 1 /\ startswith(non_object_lines[k - 1], ReorderId.MANUAL_COLOR_CHANGE_ID)
            THEN IF toolhead = None THEN [raised |-> "TypeError", lines |-> non_object_lines]
                 ELSE [raised |-> "no",
                       lines |-> [non_object_lines EXCEPT
                                     ![k] = << "T" >> \o toolhead_text(toolhead),
                                     ![k - 1] = << "M", "6", "0", "0", " ", ";", " ", "c", "h", "a", "n", "g", "e", " ", "t", "o", " ", "f", "i", "l", "a", "m", "e", "n", "t", " ", "f", "o", "r", " ", "e", "x", "t", "r", "u", "d", "e", "r", " " >>
                                                    \o DigitsOf(toolhead[1] + 1)]]
            ELSE [raised |-> "no",
                  lines |-> [non_object_lines EXCEPT ![k] = << "T" >> \o toolhead_text(toolhead)]]
    IN  IF changes = {} THEN [raised |-> "no", lines |-> non_object_lines]
        ELSE At(CHOOSE k \in changes : \A j \in changes : j <= k)

\* the loops of process_gcode_toolhead_order over the components of all
\* layers in turn, places[k] pairing a component with the sorted component
\* printed in its place
RECURSIVE ReorderLoop(_, _, _, _, _)
ReorderLoop(gl, places, k, i, processed_gcode_lines) ==
    IF k > Len(places)
    THEN [raised |-> "no", lines |-> processed_gcode_lines \o Slice(gl, i, Len(gl))]
    ELSE LET Put(r) ==
                 IF r.raised # "no" THEN [raised |-> r.raised, lines |-> << >>]
                 ELSE ReorderLoop(gl, places, k + 1, places[k].print_component.end_idx,
                                  processed_gcode_lines \o r.lines
                                      \o Slice(gl, places[k].sorted_print_component.start_idx[1],
                                               places[k].sorted_print_component.end_idx))
         IN  Put(Retooled(Slice(gl, i, places[k].print_component.start_idx[1]),
                          places[k].sorted_print_component.toolhead))

\* zip(layer, sorted_layer) for every layer, one after the other
Places(print_components, sorted_print_components) ==
    Concat([l \in 1..Len(print_components) |->
               [k \in 1..Len(print_components[l]) |->
                   [print_component |-> print_components[l][k],
                    sorted_print_component |-> sorted_print_components[l][k]]]])

process_gcode_toolhead_order(gl) ==
    LET Sorted(print_components) ==
            ReorderLoop(gl, Places(print_components,
                                   [l \in 1..Len(print_components) |-> sorted(print_components[l])]),
                        1, 0, << >>)
        Measured(print_components, lengths) ==
            IF \E l \in 1..Len(lengths) : \E k \in 1..Len(lengths[l]) : lengths[l][k].raised # "no"
            THEN [raised |-> "TypeError", lines |-> << >>]
            ELSE Sorted([l \in 1..Len(print_components) |->
                            [k \in 1..Len(print_components[l]) |->
                                [print_components[l][k] EXCEPT
                                    !.extrusion_length = Some(lengths[l][k].v)]]])
        Found(print_components) ==
            Measured(print_components,
                     [l \in 1..Len(print_components) |->
                         [k \in 1..Len(print_components[l]) |->
                             get_extrusion_length(gl, print_components[l][k].start_idx,
                                                  print_components[l][k].end_idx)]])
    IN  Found(get_print_components(gl))

\* a variant of fix_progress: no line is replaced
fix_nothing(processed_gcode_lines, gl) == [raised |-> "no", lines |-> processed_gcode_lines]

\* the loop of fix_progress from line i (0-based) on, n lines of
\* progress_lines being used up; next() past the last one raises
\* StopIteration
RECURSIVE FixLoop(_, _, _, _)
FixLoop(processed_gcode_lines, progress_lines, i, n) ==
    IF i >= Len(processed_gcode_lines) THEN [raised |-> "no", lines |-> processed_gcode_lines]
    ELSE IF ~startswith(processed_gcode_lines[i + 1], ReorderId.PROGRESS_ID)
    THEN FixLoop(processed_gcode_lines, progress_lines, i + 1, n)
    ELSE IF n >= Len(progress_lines)
    THEN [raised |-> "StopIteration", lines |-> processed_gcode_lines]
    ELSE FixLoop([processed_gcode_lines EXCEPT ![i + 1] = progress_lines[n + 1]],
                 progress_lines, i + 1, n + 1)

\* fix_progress(processed_gcode_lines, gcode_lines): the list after it, and
\* what it raised
fix_progress(processed_gcode_lines, gl) ==
    FixLoop(processed_gcode_lines,
            SelectSeq(gl, LAMBDA line : startswith(line, ReorderId.PROGRESS_ID)), 0, 0)

\* the lines ColorReorder appends to the processed file
reorder_config_lines == << << ";", " ", "P", "o", "s", "t", "-", "P", "r", "o", "c", "e", "s", "s", "e", "d", " ", "W", "i", "t", "h", " ", "C", "o", "l", "o", "r", "L", "i", "t", "h", "o", "R", "e", "o", "r", "d", "e", "r" >>, << >> >>

\* a progress line of the slicer, numbered by its place in the file
ProgressLine(p) == << "M", "7", "3", " ", "P" >> \o DigitsOf(p) \o << " ", "R", "1" >>

\* the block of an object, numbered by its place in the file, that is
\* extruded along far millimetres
ObjectLines(c, p, far) ==
    << << ";", " ", "p", "r", "i", "n", "t", "i", "n", "g", " ", "o", "b", "j", "e", "c", "t", " " >> \o DigitsOf(c),
       << "G", "1", " ", "X", "0", " ", "Y", "0" >>,
       ProgressLine(p),
       << "G", "1", " ", "X" >> \o DigitsOf(far) \o << " ", "Y", "0", " ", "E", "1" >>,
       << ";", " ", "s", "t", "o", "p", " ", "p", "r", "i", "n", "t", "i", "n", "g", " ", "o", "b", "j", "e", "c", "t", " " >> \o DigitsOf(c) >>

\* what stands in a plan of an input file
PlanItems == { "T0", "T1", "M600", "LAYER", "M73", "short", "long", "DISABLED" }

\* the lines of the items of a plan from item k on, c objects and p progress
\* lines standing before them
RECURSIVE PlanLines(_, _, _, _)
PlanLines(plan, k, c, p) ==
    IF k > Len(plan) THEN << >>
    ELSE IF plan[k] = "T0" THEN << << "T", "0" >> >> \o PlanLines(plan, k + 1, c, p)
    ELSE IF plan[k] = "T1" THEN << << "T", "1" >> >> \o PlanLines(plan, k + 1, c, p)
    ELSE IF plan[k] = "M600"
    THEN << << "M", "6", "0", "0", " ", ";", " ", "c", "h", "a", "n", "g", "e", " ", "t", "o", " ", "f", "i", "l", "a", "m", "e", "n", "t", " ", "f", "o", "r", " ", "e", "x", "t", "r", "u", "d", "e", "r", " ", "2" >>, << "T", "1" >> >> \o PlanLines(plan, k + 1, c, p)
    ELSE IF plan[k] = "LAYER" THEN << LAYER_CHANGE_ID >> \o PlanLines(plan, k + 1, c, p)
    ELSE IF plan[k] = "M73" THEN << ProgressLine(p) >> \o PlanLines(plan, k + 1, c, p + 1)
    ELSE IF plan[k] = "short" THEN ObjectLines(c, p, 1) \o PlanLines(plan, k + 1, c + 1, p + 1)
    ELSE IF plan[k] = "long" THEN ObjectLines(c, p, 2) \o PlanLines(plan, k + 1, c + 1, p + 1)
    ELSE << ReorderId.LITHO_REORDER_DISABLED >> \o PlanLines(plan, k + 1, c, p)

\* the plans of at most MaxPlan items
Plans == UNION { [1..n -> PlanItems] : n \in 0..MaxPlan }

\* the input files of ColorReorder
ReorderFiles ==
    { << ReorderId.LITHO_REORDER_ENABLED >> \o PlanLines(plan, 1, 0, 0) : plan \in Plans }

InitReorder ==
    /\ NoGCode
    /\ pc = "reorder"
    /\ fmt = NoCall
    /\ wipe = NoCall
    /\ seg = NoCall
    /\ blip = NoCall
    /\ main \in { [tool |-> "ColorReorder", gcode_lines |-> gl, step |-> "loaded",
                   reordered |-> << >>, processed_gcode_lines |-> << >>, raised |-> "no",
                   written |-> FALSE] : gl \in ReorderFiles }

\* processed_gcode_lines = process_gcode_toolhead_order(gcode_lines)
ReorderProcess ==
    /\ pc = "reorder"
    /\ main.step = "loaded"
    /\ LET r == process_gcode_toolhead_order(main.gcode_lines)
       IN  main' = IF r.raised # "no"
                   THEN [main EXCEPT !.step = "aborted", !.raised = r.raised]
                   ELSE [main EXCEPT !.step = "reordered", !.reordered = r.lines,
                                     !.processed_gcode_lines = r.lines]
    /\ UNCHANGED << pc, fmt, wipe, seg, blip >>
    /\ UNCHANGED gcode_vars

\* fix_progress(processed_gcode_lines, gcode_lines)
ReorderFixProgress ==
    /\ pc = "reorder"
    /\ main.step = "reordered"
    /\ LET r == fix_progress(main.processed_gcode_lines, main.gcode_lines)
       IN  main' = IF r.raised # "no"
                   THEN [main EXCEPT !.step = "aborted", !.raised = r.raised]
                   ELSE [main EXCEPT !.step = "fixed", !.processed_gcode_lines = r.lines]
    /\ UNCHANGED << pc, fmt, wipe, seg, blip >>
    /\ UNCHANGED gcode_vars

\* processed_gcode_lines += get_config_lines(); store_gcode_lines
ReorderStore ==
    /\ pc = "reorder"
    /\ main.step = "fixed"
    /\ main' = [main EXCEPT !.step = "stored", !.written = TRUE,
                            !.processed_gcode_lines = @ \o reorder_config_lines]
    /\ UNCHANGED << pc, fmt, wipe, seg, blip >>
    /\ UNCHANGED gcode_vars

NextReorder ==
    \/ ReorderProcess
    \/ ReorderFixProgress
    \/ ReorderStore

SpecReorder == InitReorder /\ [][NextReorder]_vars


\* the toolhead the last T<n> line before line j (1-based) of lines names,
\* None when there is no such line
ActiveToolhead(lines, j) ==
    LET changes == { k \in 1..(j - 1) : toolhead_change(lines[k]) # None }
    IN  IF changes = {} THEN None
        ELSE toolhead_change(lines[CHOOSE k \in changes : \A t \in changes : t <= k])

\* the print components of the input file, layer after layer
InputComponents == Concat(get_print_components(main.gcode_lines))

\* the place (1-based) in the reordered file of the first line of the block
\* of a component
BlockPlace(component) ==
    CHOOSE b \in 1..Len(main.reordered) :
        main.reordered[b] = main.gcode_lines[component.start_idx[1] + 1]

\* C25: in the output of process_gcode_toolhead_order the last T<n> line
\* before the block of a print component names the toolhead the component
\* was printed with in the input, in a file where a T<n> line stands before
\* the first component.
ToolheadKept ==
    (/\ pc = "reorder"
     /\ main.step = "reordered"
     /\ \A k \in 1..Len(InputComponents) : InputComponents[k].toolhead # None) =>
        \A k \in 1..Len(InputComponents) :
            ActiveToolhead(main.reordered, BlockPlace(InputComponents[k]))
                = InputComponents[k].toolhead

\* the lines of progress of a file, in order
ProgressOf(lines) == SelectSeq(lines, LAMBDA line : startswith(line, ReorderId.PROGRESS_ID))

\* C30: after process_gcode_toolhead_order and fix_progress the lines of
\* progress of the output are those of the input in the same order, next()
\* never runs out of lines of progress, and fix_progress changes no other
\* line.
ProgressRestored ==
    pc = "reorder" =>
        /\ main.raised # "StopIteration"
        /\ main.step = "fixed" =>
              /\ ProgressOf(main.processed_gcode_lines) = ProgressOf(main.gcode_lines)
              /\ Len(main.processed_gcode_lines) = Len(main.reordered)
              /\ \A j \in 1..Len(main.reordered) :
                    main.processed_gcode_lines[j] # main.reordered[j] =>
                        /\ startswith(main.reordered[j], ReorderId.PROGRESS_ID)
                        /\ startswith(main.processed_gcode_lines[j], ReorderId.PROGRESS_ID)

\* fix_progress has run on a file whose lines of progress the reordering
\* had put in another order
ProgressWasMixed ==
    /\ pc = "reorder"
    /\ main.step = "fixed"
    /\ ProgressOf(main.reordered) # ProgressOf(main.gcode_lines)
    /\ main.processed_gcode_lines # main.reordered


\* ------------------------------------------------------------------------
\* ColorBlip: retractions and deretractions over the layers of a file
\* ------------------------------------------------------------------------
\* GCode.process_gcode_lines of ColorBlip on a whole file
BlipGCode(cfg, gl) ==
    LET Split(st, post) ==
            [pre_end_idx |-> st.pre_end_idx, post_start_idx |-> post,
             tree |-> AppendLayer("ColorBlip", cfg, gl, post,
                                  LayerLoop("ColorBlip", cfg, gl, st.pre_end_idx, post, st))]
    IN  Split(PrePrintLoop("ColorBlip", gl, 0,
                           Scan(FALSE, DefaultEnabled("ColorBlip"), undefined, None, 0, None, << >>)),
              PostPrintLoop("ColorBlip", gl, Len(gl) - 1, 0))

\* GCode.gcode_lines() of ColorBlip, printed[k] being what Layer.print of
\* layer k gives: what it raises and the list returned
BlipJoined(gl, gcode, printed) ==
    IF \E k \in 1..Len(printed) : printed[k].raised # "no"
    THEN [raised |-> "raised", lines |-> << >>]
    ELSE [raised |-> "no",
          lines |-> Slice(gl, 0, gcode.pre_end_idx)
                        \o Concat([k \in 1..Len(printed) |->
                                      gcode.tree.layers[k].pre_print \o printed[k].gcode_lines])
                        \o Slice(gl, gcode.post_start_idx, Len(gl))]

\* GCode.gcode_lines() of ColorBlip, the first time it is called
BlipGcodeLines(cfg, gl, gcode) ==
    BlipJoined(gl, gcode, [k \in 1..Len(gcode.tree.layers) |-> BlipPrint(cfg, gcode.tree.layers[k])])

\* a printed segment of an input file: a travel move, the deretraction if
\* the slicer retracted before the travel, a straight extrusion of 2 mm in
\* four moves, the retraction if the slicer retracts after it.  Segment "A"
\* runs from (1,1) to (3,1), "B" from (3,1.5) to (1,1.5), "C" from (1,4) to
\* (3,4).
SegmentOf(kind, deretracted, retracted) ==
    LET path == CASE kind = "A" -> << << "G", "1", " ", "X", "1", " ", "Y", "1" >>, << "G", "1", " ", "X", "1", ".", "5", " ", "Y", "1", " ", "E", "1" >>, << "G", "1", " ", "X", "2", " ", "Y", "1", " ", "E", "1" >>,
                                      << "G", "1", " ", "X", "2", ".", "5", " ", "Y", "1", " ", "E", "1" >>, << "G", "1", " ", "X", "3", " ", "Y", "1", " ", "E", "1" >> >>
                  [] kind = "B" -> << << "G", "1", " ", "X", "3", " ", "Y", "1", ".", "5" >>, << "G", "1", " ", "X", "2", ".", "5", " ", "Y", "1", ".", "5", " ", "E", "1" >>, << "G", "1", " ", "X", "2", " ", "Y", "1", ".", "5", " ", "E", "1" >>,
                                      << "G", "1", " ", "X", "1", ".", "5", " ", "Y", "1", ".", "5", " ", "E", "1" >>, << "G", "1", " ", "X", "1", " ", "Y", "1", ".", "5", " ", "E", "1" >> >>
                  [] kind = "C" -> << << "G", "1", " ", "X", "1", " ", "Y", "4" >>, << "G", "1", " ", "X", "1", ".", "5", " ", "Y", "4", " ", "E", "1" >>, << "G", "1", " ", "X", "2", " ", "Y", "4", " ", "E", "1" >>,
                                      << "G", "1", " ", "X", "2", ".", "5", " ", "Y", "4", " ", "E", "1" >>, << "G", "1", " ", "X", "3", " ", "Y", "4", " ", "E", "1" >> >>
    IN  << Head(path) >> \o (IF deretracted THEN << << "G", "1", " ", "E", "1", " ", "F", "6", "0" >> >> ELSE << >>)
            \o Tail(path) \o (IF retracted THEN << << "G", "1", " ", "E", "-", "1", " ", "F", "6", "0" >> >> ELSE << >>)

\* the layers of an input file: the layer change, with or without the
\* retraction of the layer change after it, and segment A alone or followed
\* by segment B or C
BalanceLayers ==
    { << LAYER_CHANGE_ID >> \o (IF r THEN << << "G", "1", " ", "E", "-", "1", " ", "F", "6", "0" >> >> ELSE << >>)
          \o << AFTER_LAYER_CHANGE_ID >> \o SegmentOf("A", d[1], d[2]) \o rest :
        r \in BOOLEAN, d \in BOOLEAN \X BOOLEAN,
        rest \in { << >> } \cup { SegmentOf(s[1], s[2], s[3]) : s \in {"B", "C"} \X BOOLEAN \X BOOLEAN } }

\* the input files: the marker that enables the tool and two layers
BalanceFiles == { << ENABLED_ID("ColorBlip") >> \o a \o b : a \in BalanceLayers, b \in BalanceLayers }

InitBalance ==
    /\ NoGCode
    /\ pc = "file"
    /\ fmt = NoCall
    /\ wipe = NoCall
    /\ seg = NoCall
    /\ main = NoCall
    /\ blip \in { [cfg |-> c, gcode_lines |-> gl, gcode |-> NoCall, result |-> NoCall] :
                     gl \in BalanceFiles, c \in BlipConfigs }

\* gcode = GCode(gcode_lines)
BalanceBuild ==
    /\ pc = "file"
    /\ blip' = [blip EXCEPT !.gcode = BlipGCode(blip.cfg, blip.gcode_lines)]
    /\ pc' = "file_built"
    /\ UNCHANGED << fmt, wipe, seg, main >>
    /\ UNCHANGED gcode_vars

\* gcode.gcode_lines()
BalancePrint ==
    /\ pc = "file_built"
    /\ ~blip.gcode.tree.err
    /\ blip' = [blip EXCEPT !.result = BlipGcodeLines(blip.cfg, blip.gcode_lines, blip.gcode)]
    /\ pc' = "file_printed"
    /\ UNCHANGED << fmt, wipe, seg, main >>
    /\ UNCHANGED gcode_vars

NextBalance ==
    \/ BalanceBuild
    \/ BalancePrint

SpecBalance == InitBalance /\ [][NextBalance]_vars

\* the retractions (-1) and deretractions (1) of a list of lines, in order
RECURSIVE Retractions(_)
Retractions(lines) ==
    IF lines = << >> THEN << >>
    ELSE LET Sign(g1) == IF g1.e[1] < 0 THEN << 0 - 1 >> ELSE << 1 >>
         IN  (IF IsRetraction(Head(lines)) THEN Sign(parse_line(Head(lines))) ELSE << >>)
                 \o Retractions(Tail(lines))

\* no two retractions and no two deretractions follow each other
Alternate(signs) == \A k \in 1..(Len(signs) - 1) : signs[k] # signs[k + 1]

\* the nozzle is retracted when line j (1-based) of lines is reached
RetractedAt(lines, j) ==
    LET signs == Retractions(SubSeq(lines, 1, j))
    IN  signs # << >> /\ signs[Len(signs)] = 0 - 1

\* every layer of the file is entered with the nozzle retracted
LayersEnteredRetracted(lines) ==
    \A j \in 1..Len(lines) : lines[j] = AFTER_LAYER_CHANGE_ID => RetractedAt(lines, j)

\* every extrusion along a path is made with the nozzle deretracted
ExtrudedDeretracted(lines) ==
    \A j \in 1..Len(lines) :
        LET g1 == parse_line(lines[j])
            signs == Retractions(SubSeq(lines, 1, j))
        IN  (g1.kind = "G1" /\ g1.x # None /\ g1.e # None) =>
                (signs # << >> /\ signs[Len(signs)] = 1)

\* every deretraction follows a retraction, no other deretraction between
DeretractionsFollow(signs) ==
    \A k \in 1..Len(signs) : signs[k] = 1 => (k > 1 /\ signs[k - 1] = 0 - 1)

\* C26: when the retractions and deretractions of the input file alternate,
\* every layer is entered retracted and every extrusion is made deretracted,
\* every deretraction in the output of its enabled layers, those the tool
\* inserts included, follows a retraction with no other deretraction in
\* between, inside a layer and from one layer to the next.
RetractionsAlternate ==
    (/\ pc = "file_printed"
     /\ blip.result.raised = "no"
     /\ Alternate(Retractions(blip.gcode_lines))
     /\ LayersEnteredRetracted(blip.gcode_lines)
     /\ ExtrudedDeretracted(blip.gcode_lines)) =>
        DeretractionsFollow(Retractions(blip.result.lines))


\* ------------------------------------------------------------------------
\* GapCloser: the segments of a layer and Line.process_gcode_lines
\* ------------------------------------------------------------------------
\* longest layer handed to the Layer of GapCloser, after its ;LAYER_CHANGE
MaxGap == 5

\* Line.__init__ of GapCloser, before self.lines is set
GapLine(gl, start_point, end_point, extrusion_end_point, wipe_indices, enabled) ==
    [gcode_lines |-> gl, start_point |-> start_point, end_point |-> end_point,
     extrusion_end_point |-> extrusion_end_point, wipe_indices |-> wipe_indices,
     enabled |-> enabled]

\* wipe_indices = (wipe_start_idx, wipe_end_idx) if wipe_start_idx is not None else None
WipeIndices(st) ==
    IF st.wipe_start_idx = None THEN None ELSE Some(<< st.wipe_start_idx[1], st.wipe_end_idx >>)

\* second loop of Layer.process_gcode_lines of GapCloser from line i (0-based)
\* on, and the Line made after it
RECURSIVE GapSplitLoop(_, _, _, _)
GapSplitLoop(gl, i, enabled, st) ==
    IF i >= Len(gl)
    THEN [st EXCEPT !.lines = Append(@, GapLine(Slice(gl, st.line_start_idx, Len(gl)),
                                                st.line_start_point, st.current_point,
                                                st.extrusion_end_point, WipeIndices(st), enabled))]
    ELSE LET Moved(g1, new_point, ended) ==
                 IF g1.e = None /\ ~is_xy_equal(st.current_point, new_point)
                 THEN [st EXCEPT !.lines = Append(@, GapLine(Slice(gl, st.line_start_idx, i),
                                                             st.line_start_point, st.current_point,
                                                             ended, WipeIndices(st), enabled)),
                                 !.line_start_idx = i,
                                 !.line_start_point = new_point,
                                 !.wipe_start_idx = None,
                                 !.wipe_end_idx = None,
                                 !.extrusion_end_point = ended,
                                 !.current_point = new_point]
                 ELSE [st EXCEPT !.extrusion_end_point = ended, !.current_point = new_point]
             Parsed(g1, new_point) ==
                 IF g1.kind = "ValueError" THEN [st EXCEPT !.err = TRUE]
                 ELSE GapSplitLoop(gl, i + 1, enabled,
                          IF g1.kind = "G1"
                          THEN Moved(g1, new_point,
                                     IF g1.e # None /\ g1.e[1] > 0 THEN new_point
                                     ELSE st.extrusion_end_point)
                          ELSE IF gl[i + 1] = WIPE_START
                          THEN [st EXCEPT !.wipe_start_idx = Some(i - st.line_start_idx)]
                          ELSE IF gl[i + 1] = WIPE_END
                          THEN [st EXCEPT !.wipe_end_idx = Some(i - st.line_start_idx)]
                          ELSE st)
         IN  Parsed(parse_line(gl[i + 1]),
                    updated_with_g1_move(st.current_point, parse_line(gl[i + 1])))

\* Layer.process_gcode_lines of GapCloser: the arguments of the Lines made
GapSplit(gl, start_point, enabled) ==
    LET Split(pre) ==
            IF pre.err THEN [err |-> TRUE, lines |-> << >>]
            ELSE GapSplitLoop(gl, pre.pre_end_idx, enabled,
                              [err |-> FALSE, lines |-> << >>,
                               line_start_idx |-> pre.pre_end_idx,
                               line_start_point |-> pre.start_point,
                               extrusion_end_point |-> pre.start_point,
                               wipe_start_idx |-> None, wipe_end_idx |-> None,
                               current_point |-> pre.current_point])
    IN  Split(PreLayerScan(gl, 0, start_point, start_point, FALSE))

\* the start line written in place of the first line of the segment: the
\* point, the Z and F fields of gcode_lines[0], the comment
GapStartLine(gl, point, comment) ==
    LET Written(start_g1) ==
            IF start_g1.kind # "G1" THEN [raised |-> "AttributeError", line |-> << >>]
            ELSE [raised |-> "no",
                  line |-> << "G", "1", " ", "X" >> \o gcode_fmt(OfScale(point.x[1]), 3)
                               \o << " ", "Y" >> \o gcode_fmt(OfScale(point.y[1]), 3)
                               \o (IF start_g1.z # None
                                   THEN << " ", "Z" >> \o gcode_fmt(OfScale(start_g1.z[1]), 3) ELSE << >>)
                               \o (IF start_g1.f # None
                                   THEN << " ", "F" >> \o DigitsOf(start_g1.f[1] \div Scale) ELSE << >>)
                               \o comment]
    IN  IF gl = << >> THEN [raised |-> "IndexError", line |-> << >>]
        ELSE Written(parse_line(gl[1]))

\* f"G1 X{..} Y{..} E{gcode_fmt(prev_e, precision=5)} ; GapCloser (Seam)", prev_e
\* in units of 10^-6 or None
SeamLine(point, prev_e) ==
    IF prev_e = None THEN [raised |-> "TypeError", line |-> << >>]
    ELSE [raised |-> "no",
          line |-> TravelMoveLine(point, prev_e[1], << " ", ";", " ", "G", "a", "p", "C", "l", "o", "s", "e", "r", " ", "(", "S", "e", "a", "m", ")" >>)]

\* self.start_point.xy_dist(self.extrusion_end_point) < 0.5
has_seam(line) == xy_dist(line.start_point, line.extrusion_end_point) < 5 * (Scale \div 10)

\* Point.back_up_point
back_up_point(self, next_point, distance, point_dist) ==
    Point(Some(self.x[1] - RoundDiv((next_point.x[1] - self.x[1]) * distance, point_dist)),
          Some(self.y[1] - RoundDiv((next_point.y[1] - self.y[1]) * distance, point_dist)),
          self.z)

\* the lines get_back_up_lines works on
BackUpInput(line) ==
    IF line.wipe_indices = None THEN line.gcode_lines
    ELSE Slice(line.gcode_lines, 0, line.wipe_indices[1][1])

\* one move of the for loop of get_back_up_lines that changes the planar
\* position and is not skipped: the lines appended and the loop variables
BackUpMove(line, gl, st, g1, new_point, distance) ==
    LET Lowered(added) ==
            [st EXCEPT !.lines = @ \o added,
                       !.extrusion_remaining = @ - distance,
                       !.prev_e = IF g1.e = None THEN None ELSE Some(g1.e[1] * Scale),
                       !.current_point = new_point,
                       !.lowered = TRUE]
        Whole(seam) ==
            IF seam.raised # "no" THEN [st EXCEPT !.raised = seam.raised]
            ELSE Lowered(<< seam.line >>)
        Part(seam, start) ==
            IF seam.raised # "no" THEN [st EXCEPT !.raised = seam.raised]
            ELSE IF start.raised # "no" THEN [st EXCEPT !.raised = start.raised]
            ELSE Lowered(<< seam.line, start.line >>)
    IN  IF st.extrusion_remaining > distance THEN Whole(SeamLine(st.current_point, st.prev_e))
        ELSE Part(SeamLine(st.current_point,
                           IF st.prev_e = None THEN None
                           ELSE Some(RoundDiv(st.prev_e[1] * st.extrusion_remaining, distance))),
                  GapStartLine(gl,
                               IF st.extrusion_remaining >= distance THEN new_point
                               ELSE waypoint(st.current_point, new_point,
                                             st.extrusion_remaining, distance),
                               << " ", ";", " ", "G", "a", "p", "C", "l", "o", "s", "e", "r", " ", "(", "S", "e", "a", "m", ")" >>))

\* the for loop of get_back_up_lines over reversed(gcode_lines), at line j
\* (1-based, from the last line down)
RECURSIVE BackUpFor(_, _, _, _)
BackUpFor(line, gl, j, st) ==
    IF j < 1 \/ st.raised # "no" \/ st.extrusion_remaining <= 0 THEN st
    ELSE LET Moved(g1, new_point) ==
                 IF is_xy_equal(st.current_point, new_point) THEN BackUpFor(line, gl, j - 1, st)
                 ELSE IF g1.e = None /\ new_point # line.start_point
                 THEN BackUpFor(line, gl, j - 1, st)
                 ELSE BackUpFor(line, gl, j - 1,
                                BackUpMove(line, gl, st, g1, new_point,
                                           xy_dist(st.current_point, new_point)))
             Parsed(g1) ==
                 IF g1.kind = "ValueError" THEN [st EXCEPT !.raised = "ValueError"]
                 ELSE IF g1.kind # "G1" THEN BackUpFor(line, gl, j - 1, st)
                 ELSE Moved(g1, updated_with_g1_move(st.current_point, g1))
         IN  Parsed(parse_line(gl[j]))

\* one pass of the while loop of get_back_up_lines; lowered tells whether
\* the pass lowered extrusion_remaining
BackUpPass(line, initial_e, st) ==
    BackUpFor(line, BackUpInput(line), Len(BackUpInput(line)),
              [st EXCEPT !.prev_e = Some(initial_e), !.lowered = FALSE])

\* the first extrusion move of a segment that changes the planar position:
\* its index i (0-based), the point before it and the point after it
RECURSIVE FirstExtrude(_, _, _)
FirstExtrude(gl, i, point) ==
    IF i >= Len(gl) THEN [found |-> FALSE, raised |-> "no"]
    ELSE LET Moved(g1, new_point) ==
                 IF g1.e # None /\ g1.e[1] > 0 /\ ~is_xy_equal(point, new_point)
                 THEN [found |-> TRUE, raised |-> "no", i |-> i, current_point |-> point,
                       new_point |-> new_point, e |-> g1.e[1],
                       distance |-> xy_dist(point, new_point)]
                 ELSE FirstExtrude(gl, i + 1, new_point)
             Parsed(g1) ==
                 IF g1.kind = "ValueError" THEN [found |-> FALSE, raised |-> "ValueError"]
                 ELSE IF g1.kind # "G1" THEN FirstExtrude(gl, i + 1, point)
                 ELSE Moved(g1, updated_with_g1_move(point, g1))
         IN  Parsed(parse_line(gl[i + 1]))

\* lines[0] = first; lines += rest, on the lines kept before the first
\* extrusion move
Overwritten(lines, first, rest) ==
    IF lines = << >> THEN [raised |-> "IndexError", lines |-> << >>]
    ELSE [raised |-> "no", lines |-> << first >> \o Tail(lines) \o rest]

\* Line.process_gcode_lines of GapCloser on a segment without a seam whose
\* first extrusion move is x
BackedUp(cfg, line, x) ==
    LET gl == line.gcode_lines
        Put(start) ==
            IF start.raised # "no" THEN [raised |-> start.raised, lines |-> << >>]
            ELSE Overwritten(Slice(gl, 0, x.i), start.line,
                             << TravelMoveLine(x.new_point,
                                               x.e * Scale
                                                   + RoundDiv(x.e * cfg.back_up_distance * Scale,
                                                              x.distance),
                                               << " ", ";", " ", "G", "a", "p", "C", "l", "o", "s", "e", "r" >>) >>
                                 \o Slice(gl, x.i + 1, Len(gl)))
    IN  Put(GapStartLine(gl, back_up_point(x.current_point, x.new_point, cfg.back_up_distance,
                                           x.distance),
                         << " ", ";", " ", "G", "a", "p", "C", "l", "o", "s", "e", "r" >>))

\* Line.process_gcode_lines of GapCloser on a segment with a seam whose first
\* extrusion move is x, once get_back_up_lines has returned back_up_lines
SeamBackedUp(line, x, back_up_lines) ==
    IF back_up_lines = << >> THEN [raised |-> "IndexError", lines |-> << >>]
    ELSE Overwritten(Slice(line.gcode_lines, 0, x.i), Head(back_up_lines),
                     Tail(back_up_lines) \o Slice(line.gcode_lines, x.i, Len(line.gcode_lines)))

\* list(reversed(lines))
reversed(lines) == [k \in 1..Len(lines) |-> lines[Len(lines) + 1 - k]]


\* the settings of a GapCloser run: retract_length 1, deretract_speed 1
\* (mm/s), --back-up-distance 1.0
GapConfigs ==
    { [retract_len |-> 1 * Scale, deretract_speed |-> 1 * 60 * Scale,
       back_up_distance |-> 1 * Scale] }

\* the layers handed to Layer: ;LAYER_CHANGE, then lines out of the end of
\* the layer change, a travel move to (1,1), the deretraction, an extrusion
\* of 0.2 mm to (1.2,1), an extrusion to (3,1) and the start of a wipe
GapLayers ==
    LET GapPool ==
            { AFTER_LAYER_CHANGE_ID,
              << "G", "1", " ", "X", "1", " ", "Y", "1" >>,
              << "G", "1", " ", "E", "1", " ", "F", "6", "0" >>,
              << "G", "1", " ", "X", "1", ".", "2", " ", "Y", "1", " ", "E", "1" >>,
              << "G", "1", " ", "X", "3", " ", "Y", "1", " ", "E", "1" >>,
              WIPE_START }
    IN  { << LAYER_CHANGE_ID >> \o gl : gl \in UNION { [1..n -> GapPool] : n \in 0..MaxGap } }

\* where the layer before may have ended: at (1,1,1) or at (2,2,1)
GapStarts ==
    { Point(Some(1 * Scale), Some(1 * Scale), Some(1 * Scale)),
      Point(Some(2 * Scale), Some(2 * Scale), Some(1 * Scale)) }

InitGap ==
    /\ NoGCode
    /\ pc = "gap"
    /\ fmt = NoCall
    /\ wipe = NoCall
    /\ main = NoCall
    /\ blip = NoCall
    /\ seg \in { [cfg |-> cfg, gcode_lines |-> gl, start_point |-> p, enabled |-> TRUE,
                  lines |-> << >>, made |-> << >>, call |-> NoCall, raised |-> "no"] :
                    cfg \in GapConfigs, gl \in GapLayers, p \in GapStarts }

\* Layer.process_gcode_lines: the layer is cut into the segments its Lines
\* are made of
GapLayer ==
    /\ pc = "gap"
    /\ LET split == GapSplit(seg.gcode_lines, seg.start_point, seg.enabled)
       IN  /\ seg' = [seg EXCEPT !.lines = split.lines,
                                 !.raised = IF split.err THEN "ValueError" ELSE "no"]
           /\ pc' = IF split.err THEN "gap_raised" ELSE "gap_line"
    /\ UNCHANGED << fmt, wipe, main, blip >>
    /\ UNCHANGED gcode_vars

\* the segment the next Line is made of
NextGapLine == seg.lines[Len(seg.made) + 1]

\* self.lines of the next Line is r.lines, or r.raised is raised
GapMade(r) ==
    /\ seg' = IF r.raised # "no" THEN [seg EXCEPT !.raised = r.raised, !.call = NoCall]
              ELSE [seg EXCEPT !.made = Append(@, r.lines), !.call = NoCall]
    /\ pc' = IF r.raised # "no" THEN "gap_raised" ELSE "gap_line"

\* Line.__init__: process_gcode_lines up to its return, or up to the call of
\* get_back_up_lines and the first lines of that
GapLineInit ==
    /\ pc = "gap_line"
    /\ Len(seg.made) < Len(seg.lines)
    /\ LET line == NextGapLine
           First(x) ==
               IF x.raised # "no" THEN GapMade([raised |-> x.raised, lines |-> << >>])
               ELSE IF ~x.found THEN GapMade([raised |-> "no", lines |-> line.gcode_lines])
               ELSE IF ~has_seam(line) THEN GapMade(BackedUp(seg.cfg, line, x))
               ELSE /\ seg' = [seg EXCEPT !.call =
                                  [raised |-> "no", lines |-> << >>,
                                   current_point |-> line.start_point,
                                   extrusion_remaining |-> seg.cfg.back_up_distance,
                                   prev_e |-> None, lowered |-> FALSE, passes |-> 0,
                                   first |-> x,
                                   initial_e |-> RoundDiv(x.e * xy_dist(line.start_point,
                                                                        line.extrusion_end_point)
                                                              * Scale, x.distance)]]
                    /\ pc' = "gap_back_up"
       IN  IF ~line.enabled \/ ~has_deretraction(seg.cfg, line.gcode_lines)
           THEN GapMade([raised |-> "no", lines |-> line.gcode_lines])
           ELSE First(FirstExtrude(line.gcode_lines, 0, line.start_point))
    /\ UNCHANGED << fmt, wipe, main, blip >>
    /\ UNCHANGED gcode_vars

\* get_back_up_lines: one pass of  while extrusion_remaining > 0.  A pass
\* that lowers nothing leaves every variable of the loop as it was, so the
\* loop repeats it for ever.
GapBackUpPass ==
    /\ pc = "gap_back_up"
    /\ seg.call.extrusion_remaining > 0
    /\ LET st == BackUpPass(NextGapLine, seg.call.initial_e, seg.call)
       IN  /\ seg' = [seg EXCEPT !.call = [st EXCEPT !.passes = @ + 1],
                                 !.raised = st.raised]
           /\ pc' = IF st.raised # "no" THEN "gap_raised"
                    ELSE IF ~st.lowered THEN "gap_hangs"
                    ELSE "gap_back_up"
    /\ UNCHANGED << fmt, wipe, main, blip >>
    /\ UNCHANGED gcode_vars

\* get_back_up_lines returns list(reversed(lines)); lines[0] = back_up_lines[0];
\* lines += back_up_lines[1:]; the rest of the segment follows
GapBackUpReturn ==
    /\ pc = "gap_back_up"
    /\ seg.call.extrusion_remaining <= 0
    /\ GapMade(SeamBackedUp(NextGapLine, seg.call.first, reversed(seg.call.lines)))
    /\ UNCHANGED << fmt, wipe, main, blip >>
    /\ UNCHANGED gcode_vars

NextGap ==
    \/ GapLayer
    \/ GapLineInit
    \/ GapBackUpPass
    \/ GapBackUpReturn

SpecGap == InitGap /\ [][NextGap]_vars


\* the segment get_back_up_lines is called on has no wipe, or its wipe
\* starts after the first extrusion move
WipeAfterExtrusion ==
    \/ NextGapLine.wipe_indices = None
    \/ NextGapLine.wipe_indices[1][1] > seg.call.first.i

\* C27: get_back_up_lines returns for every segment it is called on with a
\* back-up distance above 0, one with a wipe after its extrusion included:
\* every pass of its while loop lowers extrusion_remaining, so no pass leaves
\* the loop where it was.
BackUpReturns == ~(pc = "gap_hangs" /\ WipeAfterExtrusion)


\* the first line of a segment is a G1 move that does not extrude
LeadingMove(gl) ==
    /\ gl # << >>
    /\ parse_line(gl[1]).kind = "G1"
    /\ parse_line(gl[1]).e = None

\* every line of gl but the first and the one at place i (1-based) stands in
\* lines, those before place i where they were and those after it at the end
OthersKept(gl, lines, i) ==
    /\ Len(lines) >= Len(gl)
    /\ SubSeq(lines, 2, i - 1) = SubSeq(gl, 2, i - 1)
    /\ SubSeq(lines, Len(lines) - (Len(gl) - i) + 1, Len(lines)) = SubSeq(gl, i + 1, Len(gl))

\* the Line that was being made raised on gcode_lines[0] or on lines[0]
FirstLineRaised ==
    /\ pc = "gap_raised"
    /\ seg.raised \in { "AttributeError", "IndexError" }

\* the k-th Line of the layer was rewritten
Rewritten(k) == seg.made[k] # seg.lines[k].gcode_lines

\* C28: Line.process_gcode_lines does not fail on the first line of a segment,
\* and a segment it rewrites starts with a G1 move that does not extrude, the
\* only line lost besides the first extrusion move, whose place takes the
\* rewritten first line; every other line of the segment is kept.
LeadingMoveOverwritten ==
    /\ ~FirstLineRaised
    /\ \A k \in 1..Len(seg.made) :
           Rewritten(k) =>
               /\ LeadingMove(seg.lines[k].gcode_lines)
               /\ Head(seg.made[k]) # Head(seg.lines[k].gcode_lines)
               /\ \E i \in 2..Len(seg.lines[k].gcode_lines) :
                      OthersKept(seg.lines[k].gcode_lines, seg.made[k], i)

\* a segment that starts with a move was rewritten and every other line of it
\* was kept
LeadingMoveRewritten ==
    \E k \in 1..Len(seg.made) :
        /\ Rewritten(k)
        /\ LeadingMove(seg.lines[k].gcode_lines)

\* every rewritten segment starts with a move that does not extrude and keeps
\* its other lines, whether or not another segment raised
RewrittenKept ==
    \A k \in 1..Len(seg.made) :
        Rewritten(k) =>
            /\ LeadingMove(seg.lines[k].gcode_lines)
            /\ \E i \in 2..Len(seg.lines[k].gcode_lines) :
                   OthersKept(seg.lines[k].gcode_lines, seg.made[k], i)



\* ------------------------------------------------------------------------
\* ColorBlip: gcode_lines() called twice on one tree
\* ------------------------------------------------------------------------
\* the Line nodes of a layer after Layer.print has run over them: add_retraction,
\* add_deretraction and add_start_feedrate insert into self.lines of the Line
\* they are called on, so the valid lines hold what was printed of them
PrintedNodes(nodes, st) ==
    [k \in 1..Len(nodes) |->
        IF \E j \in 1..Len(st.valid) : st.valid[j] = k
        THEN [nodes[k] EXCEPT !.gcode_lines =
                 st.segs[CHOOSE j \in 1..Len(st.valid) : st.valid[j] = k]]
        ELSE nodes[k]]

\* Layer.print of every layer of the tree, the first time it is called
BlipLayersPrinted(cfg, gcode) ==
    [k \in 1..Len(gcode.tree.layers) |-> BlipPrint(cfg, gcode.tree.layers[k])]

\* GCode.gcode_lines() of ColorBlip, called a second time on the same tree,
\* printed[k] being what the first call of Layer.print of layer k left
BlipGcodeLinesAgain(cfg, gl, gcode, printed) ==
    BlipJoined(gl, gcode,
               [k \in 1..Len(gcode.tree.layers) |->
                   BlipPrinted(cfg, gcode.tree.layers[k],
                               PrintedNodes(BlipNodes(gcode.tree.layers[k]), printed[k]))])

\* the input files: the marker that enables or disables the tool, a layer,
\* and no more or a second layer of two segments far from each other
AgainFiles ==
    LET far == << LAYER_CHANGE_ID, AFTER_LAYER_CHANGE_ID >>
                   \o SegmentOf("A", TRUE, TRUE) \o SegmentOf("C", TRUE, FALSE)
    IN  { << m >> \o a \o b :
            m \in { ENABLED_ID("ColorBlip"), DISABLED_ID("ColorBlip") },
            a \in BalanceLayers,
            b \in { << >>, far } }

InitAgain ==
    /\ NoGCode
    /\ pc = "tree"
    /\ fmt = NoCall
    /\ wipe = NoCall
    /\ seg = NoCall
    /\ main = NoCall
    /\ blip \in { [cfg |-> c, gcode_lines |-> gl, gcode |-> NoCall, printed |-> NoCall,
                   result |-> NoCall, again |-> NoCall] : gl \in AgainFiles, c \in BlipConfigs }

\* gcode = GCode(gcode_lines)
AgainBuild ==
    /\ pc = "tree"
    /\ blip' = [blip EXCEPT !.gcode = BlipGCode(blip.cfg, blip.gcode_lines)]
    /\ pc' = "tree_built"
    /\ UNCHANGED << fmt, wipe, seg, main >>
    /\ UNCHANGED gcode_vars

\* gcode.gcode_lines(); printed keeps self.lines of the Line nodes as the
\* call leaves them
AgainFlatten ==
    /\ pc = "tree_built"
    /\ ~blip.gcode.tree.err
    /\ LET Flat(printed) ==
               blip' = [blip EXCEPT !.result = BlipJoined(blip.gcode_lines, blip.gcode, printed),
                                    !.printed = printed]
       IN  Flat(BlipLayersPrinted(blip.cfg, blip.gcode))
    /\ pc' = "tree_flat"
    /\ UNCHANGED << fmt, wipe, seg, main >>
    /\ UNCHANGED gcode_vars

\* gcode.gcode_lines() once more
AgainFlattenAgain ==
    /\ pc = "tree_flat"
    /\ blip.result.raised = "no"
    /\ blip' = [blip EXCEPT !.again = BlipGcodeLinesAgain(blip.cfg, blip.gcode_lines, blip.gcode,
                                                           blip.printed)]
    /\ pc' = "tree_flat_again"
    /\ UNCHANGED << fmt, wipe, seg, main >>
    /\ UNCHANGED gcode_vars

NextAgain ==
    \/ AgainBuild
    \/ AgainFlatten
    \/ AgainFlattenAgain

SpecAgain == InitAgain /\ [][NextAgain]_vars

\* C29: a second call of GCode.gcode_lines() on the same tree returns the
\* lines the first call returned, for enabled and disabled layers alike.
FlatteningRepeatable ==
    (pc = "tree_flat_again" /\ blip.again.raised = "no") =>
        blip.again.lines = blip.result.lines

\* the second call returns the lines of the first when the tool is disabled
DisabledRepeatable ==
    (/\ pc = "tree_flat_again"
     /\ blip.gcode_lines[1] = DISABLED_ID("ColorBlip")
     /\ blip.again.raised = "no") =>
        blip.again.lines = blip.result.lines

\* a second call on disabled layers has returned
DisabledFlattenedAgain ==
    /\ pc = "tree_flat_again"
    /\ blip.gcode_lines[1] = DISABLED_ID("ColorBlip")
    /\ blip.again.raised = "no"

=============================================================================
